---- MODULE Spec2Model ----
(***************************************************************************)
(* Model of html2rss (tools/html2rss/src/main.rs): the pipeline run() that *)
(* turns a web page into an RSS feed, with the URL classifiers, the text   *)
(* normalizer, the JSON-LD extractor, the heuristic extractor, the item    *)
(* filter and the serializer it is built from.                             *)
(*                                                                         *)
(* Strings are sequences of one-character strings, so that the substring,  *)
(* prefix and pattern tests of the code are computed and not assumed.      *)
(* A URL value (url::Url) is a record of its components; Url::parse and    *)
(* Url::join are computed on the characters for the http(s) URLs and the   *)
(* relative references of the modelled pages (no port, userinfo, dot       *)
(* segment or character that the url crate would percent-encode).          *)
(***************************************************************************)
EXTENDS Integers, Sequences, FiniteSets, TLC

\* ------------------------------------------------------------------ strings

None == [some |-> FALSE, v |-> <<>>]
Some(x) == [some |-> TRUE, v |-> x]

Min(a, b) == IF a <= b THEN a ELSE b

\* Option::or / Option::or_else: a when it is Some, else b
OrElse(a, b) == IF a.some THEN a ELSE b

Digits == {"0", "1", "2", "3", "4", "5", "6", "7", "8", "9"}

\* char::to_lowercase on the ASCII letters
LowerChar(c) ==
    LET UpperChars == <<"A","B","C","D","E","F","G","H","I","J","K","L","M","N","O","P","Q","R","S","T","U","V","W","X","Y","Z">>
        LowerChars == <<"a","b","c","d","e","f","g","h","i","j","k","l","m","n","o","p","q","r","s","t","u","v","w","x","y","z">>
    IN  IF \E i \in 1..26 : UpperChars[i] = c
        THEN LowerChars[CHOOSE i \in 1..26 : UpperChars[i] = c]
        ELSE c

\* str::to_lowercase
ToLower(s) == [i \in 1..Len(s) |-> LowerChar(s[i])]

\* str::contains(sub)
Contains(s, sub) ==
    \E i \in 1..(Len(s) - Len(sub) + 1) : SubSeq(s, i, i + Len(sub) - 1) = sub

\* str::starts_with / str::ends_with
StartsWith(s, p) == Len(s) >= Len(p) /\ SubSeq(s, 1, Len(p)) = p
EndsWith(s, p) == Len(s) >= Len(p) /\ SubSeq(s, Len(s) - Len(p) + 1, Len(s)) = p

\* str::find(sub): the first index where sub starts, 0 when there is none
Find(s, sub) ==
    IF Contains(s, sub)
    THEN CHOOSE i \in 1..(Len(s) - Len(sub) + 1) :
            /\ SubSeq(s, i, i + Len(sub) - 1) = sub
            /\ \A j \in 1..(i - 1) : SubSeq(s, j, j + Len(sub) - 1) # sub
    ELSE 0

\* the first index >= from whose character is in cs, Len(s)+1 when there is none
IndexOfAny(s, cs, from) ==
    IF \E i \in from..Len(s) : s[i] \in cs
    THEN CHOOSE i \in from..Len(s) : s[i] \in cs /\ \A j \in from..(i - 1) : s[j] \notin cs
    ELSE Len(s) + 1

Tail_(s, from) == SubSeq(s, from, Len(s))

\* str::split(sep).filter(|p| !p.is_empty()): the non-empty pieces of s between sep
RECURSIVE SplitNonEmpty(_, _)
SplitNonEmpty(s, sep) ==
    IF s = <<>> THEN <<>>
    ELSE LET e == IndexOfAny(s, {sep}, 1)
             piece == SubSeq(s, 1, e - 1)
             rest == SplitNonEmpty(Tail_(s, e + 1), sep)
         IN  IF piece = <<>> THEN rest ELSE <<piece>> \o rest

\* Unicode White_Space characters of the modelled alphabet (char::is_whitespace, \s)
WhiteSpace == {" ", "\t", "\n", "\r", "U+00A0"}

\* str::trim
RECURSIVE TrimStart(_)
TrimStart(s) == IF s # <<>> /\ s[1] \in WhiteSpace THEN TrimStart(Tail(s)) ELSE s
RECURSIVE TrimEnd(_)
TrimEnd(s) ==
    IF s # <<>> /\ s[Len(s)] \in WhiteSpace THEN TrimEnd(SubSeq(s, 1, Len(s) - 1)) ELSE s
Trim(s) == TrimEnd(TrimStart(s))

\* ------------------------------------------------------------------ url::Url

NoUrl ==
    [ok |-> FALSE, scheme |-> <<>>, host |-> <<>>, path |-> <<>>,
     has_query |-> FALSE, query |-> <<>>, has_fragment |-> FALSE, fragment |-> <<>>]

\* the path, query and fragment of a reference that starts at its path
UrlFromRest(scheme, host, rest) ==
    LET Parts(pEnd, hasQ, qEnd) ==
            [ok |-> TRUE, scheme |-> scheme, host |-> host,
             path |-> IF pEnd = 1 THEN <<"/">> ELSE SubSeq(rest, 1, pEnd - 1),
             has_query |-> hasQ,
             query |-> IF hasQ THEN SubSeq(rest, pEnd + 1, qEnd - 1) ELSE <<>>,
             has_fragment |-> qEnd <= Len(rest),
             fragment |-> IF qEnd <= Len(rest) THEN Tail_(rest, qEnd + 1) ELSE <<>>]
        Query(pEnd, hasQ) ==
            Parts(pEnd, hasQ, IF hasQ THEN IndexOfAny(rest, {"#"}, pEnd + 1) ELSE pEnd)
        Path(pEnd) == Query(pEnd, pEnd <= Len(rest) /\ rest[pEnd] = "?")
    IN  Path(IndexOfAny(rest, {"?", "#"}, 1))

SchemeOf(s) ==
    LET Of(l) == IF StartsWith(l, <<"h","t","t","p","s",":","/","/">>) THEN <<"h","t","t","p","s">>
                 ELSE IF StartsWith(l, <<"h","t","t","p",":","/","/">>) THEN <<"h","t","t","p">>
                 ELSE <<>>
    IN  Of(ToLower(s))

\* Url::parse: an absolute http(s) URL, or an error (a reference without a scheme
\* is RelativeUrlWithoutBase, an empty host or a space in the host is an error)
UrlParse(s) ==
    LET Parsed(scheme, after, hEnd, host) ==
            IF scheme = <<>> \/ host = <<>> \/ \E i \in 1..Len(host) : host[i] \in WhiteSpace
            THEN NoUrl
            ELSE UrlFromRest(scheme, host, Tail_(after, hEnd))
        Host(scheme, after, hEnd) ==
            Parsed(scheme, after, hEnd, ToLower(SubSeq(after, 1, hEnd - 1)))
        Authority(scheme, after) ==
            Host(scheme, after, IndexOfAny(after, {"/", "?", "#"}, 1))
        Scheme(scheme) == Authority(scheme, Tail_(s, Len(scheme) + 4))
    IN  Scheme(SchemeOf(s))

\* Url::as_str / Into::<String>::into(url)
UrlStr(u) ==
    u.scheme \o <<":","/","/">> \o u.host \o u.path
      \o (IF u.has_query THEN <<"?">> \o u.query ELSE <<>>)
      \o (IF u.has_fragment THEN <<"#">> \o u.fragment ELSE <<>>)

\* the directory of a path: everything up to and including its last "/"
RECURSIVE DirOf(_)
DirOf(p) == IF p = <<>> \/ p[Len(p)] = "/" THEN p ELSE DirOf(SubSeq(p, 1, Len(p) - 1))

\* Url::join: resolve a reference against a base URL
UrlJoin(base, href) ==
    LET Joined(absolute) ==
            IF absolute \/ StartsWith(href, <<"/","/">>)
            THEN UrlParse(IF absolute THEN href ELSE base.scheme \o <<":">> \o href)
            ELSE IF href = <<>> THEN [base EXCEPT !.has_fragment = FALSE, !.fragment = <<>>]
            ELSE IF href[1] = "#"
                 THEN [base EXCEPT !.has_fragment = TRUE, !.fragment = Tail(href)]
            ELSE UrlFromRest(base.scheme, base.host,
                             IF href[1] = "/" THEN href
                             ELSE IF href[1] = "?" THEN base.path \o href
                             ELSE DirOf(base.path) \o href)
    IN  Joined(SchemeOf(href) # <<>>)

\* Url::domain: every modelled host is a DNS name, so the domain is the host
Domain(u) == u.host

\* ------------------------------------------------------------------ patterns

DigitsAt(s, i, n) == i >= 1 /\ i + n - 1 <= Len(s) /\ \A k \in i..(i + n - 1) : s[k] \in Digits
CharAt(s, i, c) == i >= 1 /\ i <= Len(s) /\ s[i] = c

\* RE_DATE = /\d{4}/\d{1,2}/\d{1,2}/
RE_DATE(s) ==
    \E i \in 1..Len(s) : \E a \in 1..2 : \E b \in 1..2 :
        /\ CharAt(s, i, "/") /\ DigitsAt(s, i + 1, 4)
        /\ CharAt(s, i + 5, "/") /\ DigitsAt(s, i + 6, a)
        /\ CharAt(s, i + 6 + a, "/") /\ DigitsAt(s, i + 7 + a, b)
        /\ CharAt(s, i + 7 + a + b, "/")

\* /\d{4}-\d{2}-\d{2}
IsoDateSegment(s) ==
    \E i \in 1..Len(s) :
        /\ CharAt(s, i, "/") /\ DigitsAt(s, i + 1, 4)
        /\ CharAt(s, i + 5, "-") /\ DigitsAt(s, i + 6, 2)
        /\ CharAt(s, i + 8, "-") /\ DigitsAt(s, i + 9, 2)

\* RE_ARTICLE = (?i)(/article/|/articles/|/story/|/stories/|/\d{4}-\d{2}-\d{2})
RE_ARTICLE(s) ==
    LET l == ToLower(s)
    IN  \/ Contains(l, <<"/","a","r","t","i","c","l","e","/">>) \/ Contains(l, <<"/","a","r","t","i","c","l","e","s","/">>)
        \/ Contains(l, <<"/","s","t","o","r","y","/">>) \/ Contains(l, <<"/","s","t","o","r","i","e","s","/">>)
        \/ IsoDateSegment(l)

\* re_article_local of is_listing_page: RE_ARTICLE with /entry/ added
re_article_local(s) == RE_ARTICLE(s) \/ Contains(ToLower(s), <<"/","e","n","t","r","y","/">>)

\* RE_HUFF_ENTRY = /entry/[^/]+_[0-9]+$
RE_HUFF_ENTRY(s) ==
    \E i \in 1..Len(s) : \E j \in (i + 8)..(Len(s) - 1) :
        /\ SubSeq(s, i, i + 6) = <<"/","e","n","t","r","y","/">>
        /\ s[j] = "_"
        /\ \A k \in (i + 7)..(j - 1) : s[k] # "/"
        /\ \A k \in (j + 1)..Len(s) : s[k] \in Digits

\* ------------------------------------------------------------------ form_urlencoded

\* the percent-encoded bytes of the modelled alphabet: <<two hex digits, character>>
PctTable ==
    << <<<<"2","F">>, "/">>, <<<<"3","A">>, ":">>, <<<<"3","D">>, "=">>, <<<<"2","6">>, "&">>,
       <<<<"2","5">>, "%">>, <<<<"2","B">>, "+">>, <<<<"3","F">>, "?">>, <<<<"2","3">>, "#">> >>

\* form_urlencoded decoding of one name or value: "+" is a space, %XX is its byte
RECURSIVE FormDecode(_)
FormDecode(s) ==
    IF s = <<>> THEN <<>>
    ELSE IF s[1] = "+" THEN <<" ">> \o FormDecode(Tail(s))
    ELSE IF /\ s[1] = "%" /\ 3 <= Len(s)
            /\ \E k \in 1..Len(PctTable) : PctTable[k][1] = <<s[2], s[3]>>
         THEN <<PctTable[CHOOSE k \in 1..Len(PctTable) :
                            PctTable[k][1] = <<s[2], s[3]>>][2]>>
              \o FormDecode(Tail_(s, 4))
    ELSE <<s[1]>> \o FormDecode(Tail(s))

\* form_urlencoded::byte_serialize
RECURSIVE FormEncode(_)
FormEncode(s) ==
    IF s = <<>> THEN <<>>
    ELSE IF s[1] = " " THEN <<"+">> \o FormEncode(Tail(s))
    ELSE IF \E k \in 1..Len(PctTable) : PctTable[k][2] = s[1]
         THEN <<"%">> \o PctTable[CHOOSE k \in 1..Len(PctTable) : PctTable[k][2] = s[1]][1]
              \o FormEncode(Tail(s))
    ELSE <<s[1]>> \o FormEncode(Tail(s))

\* form_urlencoded::parse: the pairs of a query string, empty pieces skipped, each
\* piece split at its first "="
FormParse(q) ==
    LET Split(piece, e) ==
            [k |-> FormDecode(SubSeq(piece, 1, e - 1)), v |-> FormDecode(Tail_(piece, e + 1))]
        FormPair(piece) == Split(piece, IndexOfAny(piece, {"="}, 1))
        Pairs(pieces) == [i \in 1..Len(pieces) |-> FormPair(pieces[i])]
    IN  Pairs(SplitNonEmpty(q, "&"))

\* form_urlencoded::Serializer: append_pair for every pair, then finish
RECURSIVE FormSerialize(_)
FormSerialize(pairs) ==
    IF pairs = <<>> THEN <<>>
    ELSE FormEncode(pairs[1].k) \o <<"=">> \o FormEncode(pairs[1].v)
         \o (IF Len(pairs) > 1 THEN <<"&">> \o FormSerialize(Tail(pairs)) ELSE <<>>)

\* ------------------------------------------------------------------ URLClassifier

section_keywords ==
    << <<"/","n","e","w","s">>, <<"/","s","e","c","t","i","o","n","/">>, <<"/","c","a","t","e","g","o","r","y","/">>, <<"/","t","o","p","i","c","/">>, <<"/","t","o","p","i","c","s","/">>, <<"/","t","a","g","/">>,
       <<"/","t","a","g","s","/">>, <<"/","c","a","t","e","g","o","r","y","/">> >>

\* is_listing_page without the rule for paths of at most two segments
is_listing_page_NoShortPaths(u, base) ==
    IF Domain(u) # Domain(base) THEN FALSE
    ELSE IF u.path = <<"/">> \/ u.path = <<>> THEN TRUE
    ELSE \E k \in 1..Len(section_keywords) : Contains(ToLower(u.path), section_keywords[k])

\* is_listing_page without the rule for section keywords
is_listing_page_NoKeywords(u, base) ==
    IF Domain(u) # Domain(base) THEN FALSE
    ELSE IF u.path = <<"/">> \/ u.path = <<>> THEN TRUE
    ELSE IF Len(SplitNonEmpty(u.path, "/")) <= 2
         THEN ~RE_DATE(u.path) /\ ~re_article_local(u.path)
    ELSE FALSE

\* is_listing_page(u, base): a section or index page of the start page's domain
is_listing_page(u, base) ==
    IF Domain(u) # Domain(base) THEN FALSE
    ELSE IF u.path = <<"/">> \/ u.path = <<>> THEN TRUE
    ELSE IF \E k \in 1..Len(section_keywords) : Contains(ToLower(u.path), section_keywords[k])
         THEN TRUE
    ELSE IF Len(SplitNonEmpty(u.path, "/")) <= 2
         THEN ~RE_DATE(u.path) /\ ~re_article_local(u.path)
    ELSE FALSE

bad ==
    << <<"n","e","w","s","l","e","t","t","e","r">>, <<"s","u","b","s","c","r","i","b","e">>, <<"s","i","g","n","u","p">>, <<"q","u","i","z","z","e","s">>, <<"q","u","i","z">>, <<"j","o","b","s">>, <<"c","a","r","e","e","r","s">>,
       <<"a","d","v","e","r","t">>, <<"a","d","s">>, <<"p","r","o","m","o">>, <<"s","u","b","s","c","r","i","b","e">>, <<"p","r","i","v","a","c","y">>, <<"t","e","r","m","s">>, <<"/","a","b","o","u","t">>,
       <<"l","o","g","i","n">>, <<"s","i","g","n","i","n">>, <<"/","s","t","o","r","i","e","s","/","n","e","w">>, <<"/","s","t","o","r","e">>, <<"/","s","u","b","s","c","r","i","p","t","i","o","n","s">>, <<"/","d","o","n","a","t","e">> >>

\* is_blacklisted_url(u): junk keywords in the query or in the path
is_blacklisted_url(u) ==
    \/ /\ u.has_query
       /\ \E w \in {<<"n","e","w","s","l","e","t","t","e","r">>, <<"s","u","b","s","c","r","i","b","e">>, <<"s","i","g","n","u","p">>} : Contains(ToLower(u.query), w)
    \/ \E k \in 1..Len(bad) : Contains(ToLower(u.path), bad[k])

IsTrackingKey(k) ==
    LET kl == ToLower(k)
    IN  StartsWith(kl, <<"u","t","m","_">>) \/ kl = <<"f","b","c","l","i","d">> \/ kl = <<"g","c","l","i","d">>

\* drops no more than the first tracking parameter
RECURSIVE DropTracking_FirstOnly(_)
DropTracking_FirstOnly(pairs) ==
    IF pairs = <<>> THEN <<>>
    ELSE IF IsTrackingKey(pairs[1].k) THEN Tail(pairs)
    ELSE <<pairs[1]>> \o DropTracking_FirstOnly(Tail(pairs))

\* the pairs canonicalize_url_str keeps: those whose key is no tracking parameter
RECURSIVE DropTracking(_)
DropTracking(pairs) ==
    IF pairs = <<>> THEN <<>>
    ELSE (IF IsTrackingKey(pairs[1].k) THEN <<>> ELSE <<pairs[1]>>)
         \o DropTracking(Tail(pairs))

\* canonicalize_url_str(s): no fragment, no tracking parameters; s itself when it
\* does not parse
canonicalize_url_str(s) ==
    LET Canon(u, pairs) ==
            IF ~u.ok THEN s
            ELSE UrlStr([u EXCEPT !.has_fragment = FALSE, !.fragment = <<>>,
                                  !.has_query = u.has_query /\ pairs # <<>>,
                                  !.query = IF u.has_query THEN FormSerialize(pairs)
                                            ELSE <<>>])
        Parsed(u) == Canon(u, DropTracking(FormParse(u.query)))
    IN  Parsed(UrlParse(s))

\* extract_inner_query_url(u): the value of the first query parameter url or u
extract_inner_query_url(u) ==
    LET FirstOf(pairs, hit) ==
            IF u.has_query /\ hit # {}
            THEN Some(pairs[CHOOSE i \in hit : \A j \in hit : i <= j].v)
            ELSE None
        Hits(pairs) ==
            FirstOf(pairs, {i \in 1..Len(pairs) : pairs[i].k = <<"u","r","l">> \/ pairs[i].k = <<"u">>})
    IN  Hits(FormParse(u.query))

\* normalize_maybe_url(base, s): the absolute form of s, when there is one
normalize_maybe_url(base, s0) ==
    LET Embedded(after) == IF after # <<>> THEN Some(after[1].v) ELSE None
        Resolve(s, abs, rel, idx) ==
            IF s = <<>> THEN None
            ELSE IF abs.ok \/ rel.ok
                 THEN OrElse(extract_inner_query_url(IF abs.ok THEN abs ELSE rel),
                             Some(UrlStr(IF abs.ok THEN abs ELSE rel)))
            ELSE IF idx # 0 THEN Embedded(FormParse(Tail_(s, idx + 4)))
            ELSE None
        Trimmed(s) == Resolve(s, UrlParse(s), UrlJoin(base, s), Find(s, <<"u","r","l","=">>))
    IN  Trimmed(Trim(s0))

\* ------------------------------------------------------------------ TextNormalizer

\* The characters outside ASCII are named by their code point. Each row is
\* <<character, its byte when the code point is <= 0xFF (else ""), its UTF-8 bytes>>;
\* a byte >= 0x80 is named "x" and its two hex digits.
NonAscii ==
    << <<"U+0082", "x82", <<"xC2", "x82">> >>,
       <<"U+0083", "x83", <<"xC2", "x83">> >>,
       <<"U+00A0", "xA0", <<"xC2", "xA0">> >>,
       <<"U+00A2", "xA2", <<"xC2", "xA2">> >>,
       <<"U+00A9", "xA9", <<"xC2", "xA9">> >>,
       <<"U+00AC", "xAC", <<"xC2", "xAC">> >>,
       <<"U+00C2", "xC2", <<"xC3", "x82">> >>,
       <<"U+00C3", "xC3", <<"xC3", "x83">> >>,
       <<"U+00E2", "xE2", <<"xC3", "xA2">> >>,
       <<"U+00E9", "xE9", <<"xC3", "xA9">> >>,
       <<"U+0192", "", <<"xC6", "x92">> >>,
       <<"U+2019", "", <<"xE2", "x80", "x99">> >>,
       <<"U+201A", "", <<"xE2", "x80", "x9A">> >>,
       <<"U+201E", "", <<"xE2", "x80", "x9E">> >>,
       <<"U+20AC", "", <<"xE2", "x82", "xAC">> >>,
       <<"U+2026", "", <<"xE2", "x80", "xA6">> >>,
       <<"U+2122", "", <<"xE2", "x84", "xA2">> >>,
       <<"U+FFFD", "", <<"xEF", "xBF", "xBD">> >> >>

\* encoding_rs::WINDOWS_1252 on the bytes 0x80..0x9F it maps away from Latin-1
Cp1252 ==
    << <<"x80", "U+20AC">>, <<"x82", "U+201A">>, <<"x83", "U+0192">>,
       <<"x84", "U+201E">>, <<"x92", "U+2019">>, <<"x99", "U+2122">> >>

RowOf(c) == CHOOSE k \in 1..Len(NonAscii) : NonAscii[k][1] = c
IsNonAscii(c) == \E k \in 1..Len(NonAscii) : NonAscii[k][1] = c
NBSP == "U+00A0"

\* the byte sequence fix_mojibake builds: a character <= 0xFF is one raw byte, any
\* other character is its UTF-8 bytes
RECURSIVE LowBytes(_)
LowBytes(s) ==
    LET Bytes(row) == IF row[2] # "" THEN <<row[2]>> ELSE row[3]
    IN  IF s = <<>> THEN <<>>
        ELSE (IF ~IsNonAscii(s[1]) THEN <<s[1]>> ELSE Bytes(NonAscii[RowOf(s[1])]))
             \o LowBytes(Tail(s))

IsHighByte(b) ==
    \/ \E k \in 1..Len(NonAscii) :
          NonAscii[k][2] = b \/ \E j \in 1..Len(NonAscii[k][3]) : NonAscii[k][3][j] = b
    \/ \E k \in 1..Len(Cp1252) : Cp1252[k][1] = b

\* String::from_utf8: the decoded string, or an error
RECURSIVE Utf8Decode(_)
Utf8Decode(bytes) ==
    IF bytes = <<>> THEN Some(<<>>)
    ELSE IF ~IsHighByte(bytes[1])
         THEN LET r == Utf8Decode(Tail(bytes))
              IN  IF r.some THEN Some(<<bytes[1]>> \o r.v) ELSE None
    ELSE IF \E k \in 1..Len(NonAscii) : StartsWith(bytes, NonAscii[k][3])
         THEN LET k == CHOOSE k \in 1..Len(NonAscii) : StartsWith(bytes, NonAscii[k][3])
                  r == Utf8Decode(Tail_(bytes, Len(NonAscii[k][3]) + 1))
              IN  IF r.some THEN Some(<<NonAscii[k][1]>> \o r.v) ELSE None
    ELSE None

\* WINDOWS_1252.decode_without_bom_handling: one character per byte, never fails
W1252Char(b) ==
    IF \E k \in 1..Len(Cp1252) : Cp1252[k][1] = b
    THEN Cp1252[CHOOSE k \in 1..Len(Cp1252) : Cp1252[k][1] = b][2]
    ELSE IF \E k \in 1..Len(NonAscii) : NonAscii[k][2] = b
    THEN NonAscii[CHOOSE k \in 1..Len(NonAscii) : NonAscii[k][2] = b][1]
    ELSE b
W1252Decode(bytes) == [i \in 1..Len(bytes) |-> W1252Char(bytes[i])]

\* the mojibake markers: A-tilde, a-circumflex and the replacement character
HasMarker(s) == \E i \in 1..Len(s) : s[i] \in {"U+00C3", "U+00E2", "U+FFFD"}

\* NFKC of one character: the no-break space is a space, the trade mark sign is TM
Nfkc(c) == IF c = NBSP THEN <<" ">> ELSE IF c = "U+2122" THEN <<"T","M">> ELSE <<c>>
RECURSIVE NfkcStr(_)
NfkcStr(s) == IF s = <<>> THEN <<>> ELSE Nfkc(s[1]) \o NfkcStr(Tail(s))

\* RE_WHITESPACE.replace_all(s, " "): every run of whitespace becomes one space
RECURSIVE CollapseWs(_)
CollapseWs(s) ==
    IF s = <<>> THEN <<>>
    ELSE IF s[1] \in WhiteSpace
         THEN <<" ">> \o CollapseWs(TrimStart(s))
    ELSE <<s[1]>> \o CollapseWs(Tail(s))

\* collapse_and_normalize
collapse_and_normalize(inp) ==
    LET Spaced(n) == [i \in 1..Len(n) |-> IF n[i] = NBSP THEN " " ELSE n[i]]
    IN  Trim(CollapseWs(Spaced(NfkcStr(inp))))

\* the number of repair passes of fix_mojibake
MojibakePasses == 3

\* the repair loop of fix_mojibake, with n passes left
RECURSIVE RepairPasses(_, _)
RepairPasses(cur, n) ==
    LET Pass(redecoded) ==
            IF redecoded = cur THEN cur
            ELSE IF ~HasMarker(redecoded) THEN redecoded
            ELSE RepairPasses(redecoded, n - 1)
        Decoded(bytes, utf) == Pass(IF utf.some THEN utf.v ELSE W1252Decode(bytes))
        Redecode(bytes) == Decoded(bytes, Utf8Decode(bytes))
    IN  IF n = 0 THEN cur ELSE Redecode(LowBytes(cur))

\* fix_mojibake(s): repair mis-decoded text, then normalize Unicode and whitespace
fix_mojibake(s) ==
    collapse_and_normalize(IF ~HasMarker(s) THEN s ELSE RepairPasses(s, MojibakePasses))

\* Option::map(fix_mojibake)
FixOpt(o) == IF o.some THEN Some(fix_mojibake(o.v)) ELSE None

\* ------------------------------------------------------------------ documents

(***************************************************************************)
(* A parsed page (scraper::Html) is a record of what the selectors of the  *)
(* code read from it:                                                      *)
(*   feed_links  the link[rel=alternate] elements: type and href           *)
(*   json_ld     the script[type=application/ld+json] blocks               *)
(*   metas       the meta elements: property or name, and content          *)
(*   body        the elements of the body in document order: "article"     *)
(*               (level and first text of its first h1-h3, first anchor,   *)
(*               first paragraph), "related" (a .related container and its *)
(*               anchors), "a" (an anchor), "h" (a heading, its level and  *)
(*               first text), "img" (its src)                              *)
(*   title_el    the text of the title element                             *)
(*   body_text   the text of the body that is_error_page scans             *)
(* An anchor is [href, text, img (the src of an image inside it),          *)
(* ancestors (the class attributes of its ancestors, nearest first)].      *)
(***************************************************************************)

Anchor(href, text, img, ancestors) ==
    [href |-> href, text |-> text, img |-> img, ancestors |-> ancestors]

Element(kind, level, h, a, p, anchors, src) ==
    [kind |-> kind, level |-> level, h |-> h, a |-> a, p |-> p, anchors |-> anchors,
     src |-> src]
ArticleEl(level, h, a, p) ==
    Element("article", level, h, a, p, IF a.some THEN <<a.v>> ELSE <<>>, None)
RelatedEl(anchors) == Element("related", 0, None, None, None, anchors, None)
AnchorEl(a) == Element("a", 0, None, None, None, <<a>>, None)
HeadingEl(level, text) == Element("h", level, text, None, None, <<>>, None)
ImgEl(src) == Element("img", 0, None, None, None, <<>>, src)

Meta(name, content) == [name |-> name, content |-> content]

Page(feed_links, json_ld, metas, body, title_el, body_text) ==
    [feed_links |-> feed_links, json_ld |-> json_ld, metas |-> metas, body |-> body,
     title_el |-> title_el, body_text |-> body_text]

\* a JSON-LD node: the members json_ld_to_item and is_jsonld_article_node read; a
\* member that is absent or is no string is None
NoType == [kind |-> "none", vals |-> <<>>]
TypeStr(s) == [kind |-> "string", vals |-> <<s>>]
TypeArr(ss) == [kind |-> "array", vals |-> ss]
NoImage == [kind |-> "none", v |-> None]
Node(type, headline, name, url, description) ==
    [is_object |-> TRUE, type |-> type, headline |-> headline, name |-> name,
     url |-> url, description |-> description, datePublished |-> None, image |-> NoImage]
NotANode == [Node(NoType, None, None, None, None) EXCEPT !.is_object = FALSE]

\* a JSON-LD block: whether its text parses, the kind of its root, the members of
\* an @graph array of the root object, the root object itself as a node, the
\* elements of a root array, the mainEntityOfPage member of the root object
Block(valid, root, graph, self, elems, main) ==
    [valid |-> valid, root |-> root, graph |-> graph, self |-> self, elems |-> elems,
     main |-> main]
GraphBlock(nodes) == Block(TRUE, "object", Some(nodes), Node(NoType, None, None, None, None), <<>>, None)
ObjectBlock(node) == Block(TRUE, "object", None, node, <<>>, None)
ArrayBlock(nodes) == Block(TRUE, "array", None, NotANode, nodes, None)
MainBlock(node) == Block(TRUE, "object", None, Node(NoType, None, None, None, None), <<>>, Some(node))
InvalidBlock == Block(FALSE, "other", None, NotANode, <<>>, None)

Item(title, link, description, pub_date, image) ==
    [title |-> title, link |-> link, description |-> description, pub_date |-> pub_date,
     image |-> image]

\* ------------------------------------------------------------------ StructuredDataExtractor

IsArticleType(s) ==
    LET l == ToLower(s)
    IN  Contains(l, <<"a","r","t","i","c","l","e">>) \/ Contains(l, <<"n","e","w","s","a","r","t","i","c","l","e">>) \/ Contains(l, <<"r","e","p","o","r","t">>)

\* is_jsonld_article_node(v)
is_jsonld_article_node(v) ==
    /\ v.is_object
    /\ v.type.kind \in {"string", "array"}
    /\ \E i \in 1..Len(v.type.vals) : IsArticleType(v.type.vals[i])

\* the image member of a node: a string, an object with url, or an array
NodeImage(v, base) ==
    IF v.image.kind \in {"string", "object", "array"} /\ v.image.v.some
    THEN normalize_maybe_url(base, v.image.v.v)
    ELSE None

\* json_ld_to_item(v, base)
json_ld_to_item(v, base) ==
    LET Made(title_raw, resolved) ==
            IF ~v.is_object \/ ~title_raw.some THEN None
            ELSE Some(Item(fix_mojibake(title_raw.v),
                           IF resolved.some THEN resolved.v ELSE UrlStr(base),
                           FixOpt(v.description), v.datePublished, NodeImage(v, base)))
    IN  Made(OrElse(v.headline, v.name),
             IF v.url.some THEN normalize_maybe_url(base, v.url.v) ELSE None)

\* the items of the article nodes among nodes, in order
RECURSIVE NodesToItems(_, _)
NodesToItems(nodes, base) ==
    LET Kept(node, it) == IF is_jsonld_article_node(node) /\ it.some THEN <<it.v>> ELSE <<>>
    IN  IF nodes = <<>> THEN <<>>
        ELSE Kept(nodes[1], json_ld_to_item(nodes[1], base)) \o NodesToItems(Tail(nodes), base)

\* the node lists extract_from_json_ld reads from one block, in the order it tries
\* them: the members of @graph, the root object, the elements of a root array,
\* mainEntityOfPage
BlockNodeLists(b) ==
    IF b.root = "object"
    THEN << IF b.graph.some THEN b.graph.v ELSE <<>>,
            <<b.self>>,
            IF b.main.some THEN <<b.main.v>> ELSE <<>> >>
    ELSE IF b.root = "array" THEN <<b.elems>>
    ELSE <<>>

\* the items of the first of the node lists that has any
RECURSIVE FirstItems(_, _)
FirstItems(lists, base) ==
    LET Got(its) == IF its # <<>> THEN Some(its) ELSE FirstItems(Tail(lists), base)
    IN  IF lists = <<>> THEN None ELSE Got(NodesToItems(lists[1], base))

\* what extract_from_json_ld makes of one block: Some(items) when it returns from
\* this block, None when it goes on to the next block
BlockItems(b, base) ==
    IF ~b.valid THEN None ELSE FirstItems(BlockNodeLists(b), base)

\* extract_from_json_ld(document, base): the items of the first block that has any
RECURSIVE FirstBlockItems(_, _)
FirstBlockItems(blocks, base) ==
    IF blocks = <<>> THEN None
    ELSE OrElse(BlockItems(blocks[1], base), FirstBlockItems(Tail(blocks), base))
extract_from_json_ld(document, base) == FirstBlockItems(document.json_ld, base)

\* is_error_page(document, title, description): an error or placeholder page
is_error_page(document, title, description) ==
    LET lt == ToLower(title)
        ld == ToLower(description.v)
        text == ToLower(document.body_text)
    IN  \/ \E w \in {<<"u","h","-","o","h">>, <<"u","h"," ","o","h">>, <<"e","r","r","o","r">>, <<"4","0","4">>, <<"p","a","g","e"," ","n","o","t"," ","f","o","u","n","d">>,
                     <<"n","o","t"," ","f","o","u","n","d">>, <<"w","e","'","r","e"," ","s","o","r","r","y">>, <<"s","o","r","r","y">>} : Contains(lt, w)
        \/ \E w \in {<<"l","o","g","i","n">>, <<"l","o","g"," ","i","n">>, <<"s","i","g","n"," ","i","n">>, <<"s","i","g","n","-","i","n">>, <<"s","i","g","n"," ","i","n"," ","t","o">>} :
              Contains(lt, w)
        \/ /\ description.some
           /\ \E w \in {<<"e","r","r","o","r">>, <<"n","o","t"," ","f","o","u","n","d">>, <<"p","a","g","e"," ","n","o","t"," ","f","o","u","n","d">>, <<"u","h","-","o","h">>} :
                 Contains(ld, w)
        \/ \E w \in {<<"u","h","-","o","h">>, <<"p","a","g","e"," ","n","o","t"," ","f","o","u","n","d">>, <<"a","n"," ","e","r","r","o","r"," ","o","c","c","u","r","r","e","d">>,
                     <<"w", "e", "U+2019", "r", "e", " ", "s", "o", "r", "r", "y">>,
                     <<"w","e"," ","a","r","e"," ","s","o","r","r","y">>, <<"s","o","r","r","y",","," ","a","n"," ","e","r","r","o","r">>} : Contains(text, w)

\* ------------------------------------------------------------------ FeedLinkDetector

\* find_linked_feed(document, base): the first alternate link of an rss or atom
\* type whose href resolves
RECURSIVE FirstFeed(_, _)
FirstFeed(links, base) ==
    LET Got(link, feed_url) ==
            IF /\ link.type.some
               /\ (Contains(link.type.v, <<"r","s","s">>) \/ Contains(link.type.v, <<"a","t","o","m">>))
               /\ link.href.some
               /\ feed_url.ok
            THEN Some(feed_url)
            ELSE FirstFeed(Tail(links), base)
    IN  IF links = <<>> THEN None ELSE Got(links[1], UrlJoin(base, links[1].href.v))
find_linked_feed(document, base) == FirstFeed(document.feed_links, base)

\* ------------------------------------------------------------------ ItemFilter

promo_words ==
    << <<"s","u","b","s","c","r","i","b","e">>, <<"s","u","b","s","c","r","i","p","t","i","o","n">>, <<"d","o","n","a","t","e">>, <<"s","u","p","p","o","r","t">>, <<"n","e","w","s","l","e","t","t","e","r">>,
       <<"b","e","c","o","m","e"," ","a"," ","m","e","m","b","e","r">>, <<"s","u","b","s","c","r","i","b","e"," ","t","o">>, <<"s","u","b","s","c","r","i","b","e"," ","n","o","w">> >>

\* the tests of filter_items that do not look at the links seen so far
DroppedByRule(it, base) ==
    LET UrlRule(u, path) ==
            /\ u.ok
            /\ \/ is_blacklisted_url(u) \/ is_listing_page(u, base)
               \/ Contains(path, <<"/","s","t","o","r","e">>) \/ Contains(path, <<"/","s","u","b","s","c","r","i","b","e">>)
               \/ Contains(path, <<"/","s","u","b","s","c","r","i","p","t","i","o","n","s">>) \/ Contains(path, <<"/","d","o","n","a","t","e">>)
        Parsed(u) == UrlRule(u, ToLower(u.path))
    IN  \/ Parsed(UrlParse(canonicalize_url_str(it.link)))
        \/ \E k \in 1..Len(promo_words) : Contains(ToLower(it.title), promo_words[k])

\* items.retain(...) of filter_items, with the canonical links seen so far
RECURSIVE Retain(_, _, _)
Retain(items, base, seen_links) ==
    LET Step(it, canon) ==
            IF DroppedByRule(it, base) \/ canon \in seen_links
            THEN Retain(Tail(items), base, seen_links)
            ELSE <<it>> \o Retain(Tail(items), base, seen_links \cup {canon})
    IN  IF items = <<>> THEN <<>> ELSE Step(items[1], canonicalize_url_str(items[1].link))

\* filter_items without the set of the links seen so far
filter_items_NoDedup(base, items) ==
    LET Kept(it) == ~DroppedByRule(it, base)
    IN  SelectSeq(items, Kept)

\* filter_items(base, items)
filter_items(base, items) == Retain(items, base, {})

\* ------------------------------------------------------------------ HeuristicExtractor

\* the caps of the scans: article elements, anchors, ancestor levels, link text
ArticleCap == 50
AnchorCap == 2000
AncestorDepth == 4
LongTextLen == 25

Take(s, n) == SubSeq(s, 1, Min(n, Len(s)))

\* str::len: the length in bytes of the UTF-8 encoding
RECURSIVE ByteLen(_)
ByteLen(s) ==
    IF s = <<>> THEN 0
    ELSE IF Len(s) = 1 THEN (IF IsNonAscii(s[1]) THEN Len(NonAscii[RowOf(s[1])][3]) ELSE 1)
    ELSE ByteLen(SubSeq(s, 1, Len(s) \div 2)) + ByteLen(SubSeq(s, Len(s) \div 2 + 1, Len(s)))

\* document.select("article"), document.select("a"), the anchors of the related
\* containers, in document order
RECURSIVE SelectKind(_, _)
SelectKind(body, kind) ==
    IF body = <<>> THEN <<>>
    ELSE (IF body[1].kind = kind THEN <<body[1]>> ELSE <<>>) \o SelectKind(Tail(body), kind)
RECURSIVE AnchorsOf(_)
AnchorsOf(body) == IF body = <<>> THEN <<>> ELSE body[1].anchors \o AnchorsOf(Tail(body))
SelectA(document) == AnchorsOf(document.body)
SelectRelatedA(document) == AnchorsOf(SelectKind(document.body, "related"))

\* the item extract_article_elements makes of one article element, if any
ArticleItem(document, base, art) ==
    LET Made(title, link, desc, link_url) ==
            IF ~art.h.some THEN None
            ELSE IF Trim(title) = <<>> THEN None
            ELSE IF is_error_page(document, title, desc) THEN None
            ELSE IF /\ link_url.ok
                    /\ (is_blacklisted_url(link_url) \/ is_listing_page(link_url, base))
                 THEN None
            ELSE Some(Item(title, link, desc, None, None))
        Linked(title, link, desc) == Made(title, link, desc, UrlParse(link))
        Joined(joined) ==
            Linked(fix_mojibake(Trim(art.h.v)),
                   UrlStr(IF art.a.some /\ art.a.v.href.some /\ joined.ok
                          THEN joined ELSE base),
                   FixOpt(art.p))
    IN  Joined(UrlJoin(base, art.a.v.href.v))

\* the loop of extract_article_elements over the article elements left
RECURSIVE ArticleLoop(_, _, _, _, _)
ArticleLoop(document, base, max_pages, arts, items) ==
    LET Add(it) == ArticleLoop(document, base, max_pages, Tail(arts),
                               IF it.some THEN Append(items, it.v) ELSE items)
    IN  IF arts = <<>> \/ Len(items) >= max_pages THEN items
        ELSE Add(ArticleItem(document, base, arts[1]))

\* extract_article_elements without the test of items.len() against max_pages
extract_article_elements_NoCap(document, base, max_pages, items) ==
    ArticleLoop(document, base, ArticleCap,
                Take(SelectKind(document.body, "article"), ArticleCap), items)

\* extract_article_elements(document, base, max_pages, items)
extract_article_elements(document, base, max_pages, items) ==
    ArticleLoop(document, base, max_pages,
                Take(SelectKind(document.body, "article"), ArticleCap), items)

\* looks_like_single_article(document)
looks_like_single_article(document) ==
    LET IsArticleMeta(nl, content) ==
            \/ nl = <<"o","g",":","t","y","p","e">> /\ content.some /\ Contains(ToLower(content.v), <<"a","r","t","i","c","l","e">>)
            \/ nl = <<"a","r","t","i","c","l","e",":","p","u","b","l","i","s","h","e","d","_","t","i","m","e">>
            \/ nl = <<"p","u","b","d","a","t","e">>
    IN  \E i \in 1..Len(document.metas) :
            IsArticleMeta(ToLower(document.metas[i].name), document.metas[i].content)

\* the item extract_related_articles makes of one anchor, given the items so far
RelatedItem(document, base, a, items) ==
    LET Made(abs, s, title) ==
            IF ~a.href.some \/ ~abs.ok THEN None
            ELSE IF Domain(abs) # Domain(base) THEN None
            ELSE IF \E i \in 1..Len(items) : items[i].link = s THEN None
            ELSE IF is_blacklisted_url(abs) \/ is_listing_page(abs, base) THEN None
            ELSE IF title = <<>> \/ is_error_page(document, title, None) THEN None
            ELSE Some(Item(title, s, None, None, None))
        Resolved(abs) == Made(abs, UrlStr(abs), fix_mojibake(Trim(a.text)))
    IN  Resolved(UrlJoin(base, a.href.v))

RECURSIVE RelatedLoop(_, _, _, _, _)
RelatedLoop(document, base, max_pages, as, items) ==
    LET Add(it) == RelatedLoop(document, base, max_pages, Tail(as),
                               IF it.some THEN Append(items, it.v) ELSE items)
    IN  IF as = <<>> \/ Len(items) >= max_pages THEN items
        ELSE Add(RelatedItem(document, base, as[1], items))

\* extract_related_articles(document, base, max_pages, items)
extract_related_articles(document, base, max_pages, items) ==
    RelatedLoop(document, base, max_pages, SelectRelatedA(document), items)

\* parent_is_card: a class of one of the nearest ancestors names a card
parent_is_card(a) ==
    \E i \in 1..Min(AncestorDepth, Len(a.ancestors)) :
        \E w \in {<<"c","a","r","d">>, <<"t","e","a","s","e","r">>, <<"p","r","o","m","o">>, <<"h","e","a","d","l","i","n","e">>, <<"s","t","o","r","y">>, <<"a","r","t","i","c","l","e">>} :
            Contains(ToLower(a.ancestors[i]), w)

\* is_article_like of build_candidate_list, for the anchor a resolved to abs
is_article_like(a, abs, base) ==
    LET Like(s, huffpost, plain) ==
            IF huffpost /\ RE_HUFF_ENTRY(s) THEN TRUE
            ELSE IF /\ huffpost
                    /\ (EndsWith(s, <<"/","n","e","w","s">>) \/ EndsWith(s, <<"/","n","e","w","s","/">>) \/ EndsWith(s, <<"/","a","l","l">>))
                 THEN FALSE
            ELSE plain
        Of(s) ==
            Like(s, Contains(ToLower(base.host), <<"h","u","f","f","p","o","s","t">>),
                 \/ RE_DATE(s) \/ RE_ARTICLE(s)
                 \/ ByteLen(fix_mojibake(Trim(a.text))) > LongTextLen
                 \/ a.img.some \/ parent_is_card(a))
    IN  Of(UrlStr(abs))

\* the loop of build_candidate_list over the anchors left
RECURSIVE CandidateLoop(_, _, _, _)
CandidateLoop(base, max_pages, as, candidates) ==
    LET Step(abs, take) ==
            IF ~take THEN CandidateLoop(base, max_pages, Tail(as), candidates)
            ELSE IF Len(candidates) + 1 >= max_pages THEN Append(candidates, abs)
            ELSE CandidateLoop(base, max_pages, Tail(as), Append(candidates, abs))
        Resolved(a, abs) ==
            Step(abs, /\ a.href.some /\ abs.ok
                      /\ Domain(abs) = Domain(base)
                      /\ \A i \in 1..Len(candidates) : UrlStr(candidates[i]) # UrlStr(abs)
                      /\ is_article_like(a, abs, base)
                      /\ ~is_blacklisted_url(abs))
    IN  IF as = <<>> THEN candidates ELSE Resolved(as[1], UrlJoin(base, as[1].href.v))

\* build_candidate_list(document, base, max_pages)
build_candidate_list(document, base, max_pages) ==
    CandidateLoop(base, max_pages, Take(SelectA(document), AnchorCap), <<>>)

\* the first content of a meta element whose lowercased name is in names
RECURSIVE FirstMeta(_, _)
FirstMeta(metas, names) ==
    IF metas = <<>> THEN None
    ELSE IF ToLower(metas[1].name) \in names /\ metas[1].content.some
         THEN metas[1].content
    ELSE FirstMeta(Tail(metas), names)

\* the first image meta element whose content resolves to a URL
RECURSIVE FirstMetaImage(_, _)
FirstMetaImage(metas, cand) ==
    LET Got(meta, resolved) ==
            IF /\ ToLower(meta.name) \in {<<"o","g",":","i","m","a","g","e">>, <<"t","w","i","t","t","e","r",":","i","m","a","g","e">>, <<"i","m","a","g","e">>}
               /\ meta.content.some
               /\ resolved.some
            THEN resolved
            ELSE FirstMetaImage(Tail(metas), cand)
    IN  IF metas = <<>> THEN None
        ELSE Got(metas[1], normalize_maybe_url(cand, metas[1].content.v))

\* the first text of the first h1 or h2 of the page
RECURSIVE FirstHeading(_)
FirstHeading(body) ==
    IF body = <<>> THEN None
    ELSE IF body[1].kind \in {"h", "article"} /\ body[1].level \in {1, 2} THEN body[1].h
    ELSE FirstHeading(Tail(body))

\* the src of the first img of the page
RECURSIVE FirstImg(_)
FirstImg(body) ==
    IF body = <<>> THEN None
    ELSE IF body[1].kind = "img" THEN body[1].src
    ELSE IF \E i \in 1..Len(body[1].anchors) : body[1].anchors[i].img.some
         THEN body[1].anchors[CHOOSE i \in 1..Len(body[1].anchors) :
                  /\ body[1].anchors[i].img.some
                  /\ \A j \in 1..(i - 1) : ~body[1].anchors[j].img.some].img
    ELSE FirstImg(Tail(body))

\* the meta, heading and title fallback of extract_item_from_doc
MetaItem(doc, cand, base) ==
    LET Made(found_title, found_desc, found_date, found_image) ==
            IF ~found_title.some THEN None
            ELSE IF is_error_page(doc, found_title.v, found_desc) THEN None
            ELSE IF is_blacklisted_url(cand) \/ is_listing_page(cand, base) THEN None
            ELSE Some(Item(found_title.v, UrlStr(cand), found_desc, found_date, found_image))
        TitleText(meta_title, heading) ==
            IF meta_title.some THEN meta_title
            ELSE IF heading.some THEN Some(Trim(heading.v))
            ELSE IF doc.title_el.some THEN Some(Trim(doc.title_el.v))
            ELSE None
        Image(meta_image, img) ==
            IF meta_image.some THEN meta_image
            ELSE IF img.some THEN normalize_maybe_url(cand, img.v)
            ELSE None
    IN  Made(FixOpt(TitleText(FirstMeta(doc.metas, {<<"o","g",":","t","i","t","l","e">>, <<"t","w","i","t","t","e","r",":","t","i","t","l","e">>, <<"t","i","t","l","e">>}),
                              FirstHeading(doc.body))),
             FixOpt(FirstMeta(doc.metas,
                              {<<"o","g",":","d","e","s","c","r","i","p","t","i","o","n">>, <<"t","w","i","t","t","e","r",":","d","e","s","c","r","i","p","t","i","o","n">>, <<"d","e","s","c","r","i","p","t","i","o","n">>})),
             FirstMeta(doc.metas, {<<"a","r","t","i","c","l","e",":","p","u","b","l","i","s","h","e","d","_","t","i","m","e">>, <<"p","u","b","d","a","t","e">>, <<"d","a","t","e">>}),
             Image(FirstMetaImage(doc.metas, cand), FirstImg(doc.body)))

\* extract_item_from_doc(doc, cand, base, items): the items with the item of the
\* fetched page added, if it has one
extract_item_from_doc(doc, cand, base, items) ==
    LET Add(jitems, it, meta) ==
            IF jitems.some /\ ~is_error_page(doc, it.title, it.description)
            THEN Append(items, it)
            ELSE IF meta.some THEN Append(items, meta.v)
            ELSE items
        Last(jitems, last) ==
            Add(jitems, IF last.link = <<>> THEN [last EXCEPT !.link = UrlStr(cand)] ELSE last,
                MetaItem(doc, cand, base))
        Found(jitems) == Last(jitems, jitems.v[Len(jitems.v)])
    IN  Found(extract_from_json_ld(doc, cand))

\* ------------------------------------------------------------------ FeedSerializer

\* the cap of a text element, in bytes
MAX_TEXT_LEN == 4096

\* html_escape::decode_html_entities, on the entities of the modelled alphabet
Entities == << <<<<"&","a","m","p",";">>, "&">>, <<<<"&","l","t",";">>, "<">>, <<<<"&","g","t",";">>, ">">>, <<<<"&","q","u","o","t",";">>, "\"">> >>
decode_html_entities(s) ==
    LET At(i, k) == /\ i + Len(Entities[k][1]) - 1 <= Len(s)
                    /\ SubSeq(s, i, i + Len(Entities[k][1]) - 1) = Entities[k][1]
        Starts(i) == \E k \in 1..Len(Entities) : At(i, k)
        Inside(i) == \E k \in 1..Len(Entities) : \E d \in 1..(Len(Entities[k][1]) - 1) :
                        i - d >= 1 /\ At(i - d, k)
        Decoded(i) == IF Starts(i)
                      THEN Entities[CHOOSE k \in 1..Len(Entities) : At(i, k)][2]
                      ELSE IF Inside(i) THEN "" ELSE s[i]
        Kept(c) == c # ""
    IN  SelectSeq([i \in 1..Len(s) |-> Decoded(i)], Kept)

\* sanitize_text removes the control characters (of the modelled alphabet those
\* below) and keeps everything else
StripControl(s) ==
    LET Allowed(c) == c \notin {"U+0000", "U+0001", "U+001F"}
    IN  SelectSeq(s, Allowed)

\* sanitize_text(input)
sanitize_text(input) == StripControl(decode_html_entities(input))

\* quick_xml escape of character data
RECURSIVE XmlEscape(_)
XmlEscape(s) ==
    IF s = <<>> THEN <<>>
    ELSE IF Len(s) = 1
         THEN (IF s[1] = "&" THEN <<"&","a","m","p",";">>
               ELSE IF s[1] = "<" THEN <<"&","l","t",";">>
               ELSE IF s[1] = ">" THEN <<"&","g","t",";">>
               ELSE IF s[1] = "\"" THEN <<"&","q","u","o","t",";">>
               ELSE IF s[1] = "'" THEN <<"&","a","p","o","s",";">>
               ELSE s)
    ELSE XmlEscape(SubSeq(s, 1, Len(s) \div 2)) \o XmlEscape(SubSeq(s, Len(s) \div 2 + 1, Len(s)))

\* the longest prefix of s of at most n bytes
RECURSIVE BytePrefix(_, _)
BytePrefix(s, n) ==
    LET Halves(left, right) ==
            IF ByteLen(left) <= n THEN left \o BytePrefix(right, n - ByteLen(left))
            ELSE BytePrefix(left, n)
    IN  IF s = <<>> THEN <<>>
        ELSE IF Len(s) = 1 THEN (IF ByteLen(s) <= n THEN s ELSE <<>>)
        ELSE Halves(SubSeq(s, 1, Len(s) \div 2), SubSeq(s, Len(s) \div 2 + 1, Len(s)))

\* String::truncate(n) panics when byte n is inside a character
TruncatePanics(s, n) == ByteLen(BytePrefix(s, n)) # n

Written(out) == [panic |-> FALSE, out |-> out]
Panicked == [panic |-> TRUE, out |-> <<>>]

\* write_text_element(w, name, text): the element, or a panic in truncate
write_text_element(name, text) ==
    LET Elem(s, long) ==
            IF long /\ TruncatePanics(s, MAX_TEXT_LEN) THEN Panicked
            ELSE Written(<<"<" \o name \o ">">>
                         \o XmlEscape(IF long
                                      THEN BytePrefix(s, MAX_TEXT_LEN) \o <<"U+2026">>
                                           \o <<" ","(","t","r","u","n","c","a","t","e","d",")">>
                                      ELSE s)
                         \o <<"</" \o name \o ">">>)
        Sanitized(s) == Elem(s, ByteLen(s) > MAX_TEXT_LEN)
    IN  Sanitized(sanitize_text(text))

\* DateTime::parse_from_rfc3339 / parse_from_rfc2822 and to_rfc2822, on the dates
\* of the modelled pages: <<raw, RFC 2822 form>>
KnownDates ==
    << <<<<"2","0","2","4","-","0","5","-","0","1","T","0","0",":","0","0",":","0","0","Z">>, <<"W","e","d",","," ","1"," ","M","a","y"," ","2","0","2","4"," ","0","0",":","0","0",":","0","0"," ","+","0","0","0","0">>>>,
       <<<<"W","e","d",","," ","1"," ","M","a","y"," ","2","0","2","4"," ","0","0",":","0","0",":","0","0"," ","+","0","0","0","0">>, <<"W","e","d",","," ","1"," ","M","a","y"," ","2","0","2","4"," ","0","0",":","0","0",":","0","0"," ","+","0","0","0","0">>>> >>

\* format_pub_date(raw)
format_pub_date(raw) ==
    IF \E k \in 1..Len(KnownDates) : KnownDates[k][1] = raw
    THEN KnownDates[CHOOSE k \in 1..Len(KnownDates) : KnownDates[k][1] = raw][2]
    ELSE raw

\* two pieces of output in sequence: a panic in either is a panic
Then(a, b) == IF a.panic \/ b.panic THEN Panicked ELSE Written(a.out \o b.out)

\* one item element of write_rss
WriteItem(it) ==
    Then(Written(<<"<item>">>),
    Then(write_text_element("title", it.title),
    Then(write_text_element("link", it.link),
    Then(IF it.description.some THEN write_text_element("description", it.description.v)
         ELSE Written(<<>>),
    Then(IF it.pub_date.some THEN write_text_element("pubDate", format_pub_date(it.pub_date.v))
         ELSE Written(<<>>),
    Then(IF it.image.some
         THEN Written(<<"<enclosure url=\"">> \o XmlEscape(it.image.v) \o <<"\"/>">>)
         ELSE Written(<<>>),
         Written(<<"</item>">>)))))))

RECURSIVE WriteItems(_)
WriteItems(items) ==
    IF items = <<>> THEN Written(<<>>) ELSE Then(WriteItem(items[1]), WriteItems(Tail(items)))

\* the document write_rss(base, items) builds before it writes to standard output
\* (the indentation between the elements is left out)
RssDocument(base, items) ==
    Then(Written(<<"<?xml version=\"1.0\" encoding=\"utf-8\"?>", "<rss version=\"2.0\">",
                   "<channel>">>),
    Then(write_text_element("title", <<"F","e","e","d"," ","f","o","r"," ">> \o base.host),
    Then(write_text_element("link", UrlStr(base)),
    Then(write_text_element("description", <<"G","e","n","e","r","a","t","e","d"," ","b","y"," ","h","t","m","l","2","r","s","s">>),
    Then(WriteItems(items),
         Written(<<"</channel>", "</rss>">>))))))

\* ------------------------------------------------------------------ the modelled site

\* the values of the command line: a start URL that parses and one that does not
StartUrls == {<<"h","t","t","p",":","/","/","a",".","c","o","/">>, <<"a",".","c","o">>}

\* the largest --max-pages of the model
MaxPagesBound == 2

Link(type, href) == [type |-> type, href |-> href]
A(href, text) == Anchor(Some(href), text, None, <<>>)
AImg(href, text) == Anchor(Some(href), text, Some(<<"/","i",".","p","n","g">>), <<>>)
ACard(href, text) == Anchor(Some(href), text, None, <<<<"r","o","w">>, <<"t","e","a","s","e","r","-","l","i","s","t">>>>)
News(headline, url) == Node(TypeStr(<<"N","e","w","s","A","r","t","i","c","l","e">>), Some(headline), None, Some(url), None)
EmptyPage == Page(<<>>, <<>>, <<>>, <<>>, None, <<>>)

\* the pages the site serves, by name
Pages ==
    [ \* a page that links its feed (after an alternate link that is no feed)
      S_feed |->
        [EmptyPage EXCEPT
           !.feed_links = <<Link(Some(<<"t","e","x","t","/","h","t","m","l">>), Some(<<"/","f","r">>)),
                            Link(Some(<<"a","p","p","l","i","c","a","t","i","o","n","/","r","s","s","+","x","m","l">>), Some(<<"/","f","e","e","d">>))>>,
           !.json_ld = <<GraphBlock(<<News(<<"T","e","s","t">>, <<"/","2","0","2","4","/","0","5","/","0","1","/","t">>)>>)>>],
      \* structured data: one @graph member, NewsArticle "Test" at /a
      S_graph_a |->
        [EmptyPage EXCEPT !.json_ld = <<GraphBlock(<<News(<<"T","e","s","t">>, <<"/","a">>)>>)>>],
      \* the same member at an article path
      S_graph_t |->
        [EmptyPage EXCEPT
           !.json_ld = <<GraphBlock(<<News(<<"T","e","s","t">>, <<"/","2","0","2","4","/","0","5","/","0","1","/","t">>)>>)>>],
      \* a block that does not parse, then two members with one canonical link
      S_graph_dup |->
        [EmptyPage EXCEPT
           !.json_ld = <<InvalidBlock,
                         GraphBlock(<<News(<<"O","n","e">>, <<"/","2","0","2","4","/","0","5","/","0","1","/","t">>),
                                      News(<<"T","w","o">>, <<"/","2","0","2","4","/","0","5","/","0","1","/","t","#","c">>)>>)>>],
      \* a root article with an empty headline and a name
      S_ld_blank |->
        [EmptyPage EXCEPT
           !.json_ld = <<ObjectBlock(Node(TypeArr(<<<<"T","h","i","n","g">>, <<"A","r","t","i","c","l","e">>>>), Some(<<>>),
                                          Some(<<"N","a","m","e">>), Some(<<"/","2","0","2","4","/","0","5","/","0","1","/","t">>), None))>>],
      \* a root article whose url wraps a string that is no URL
      S_ld_wrapped |->
        [EmptyPage EXCEPT
           !.json_ld = <<ArrayBlock(<<Node(TypeStr(<<"P","e","r","s","o","n">>), None, Some(<<"A","n","n">>), None, None),
                                      News(<<"W","r","a","p","p","e","d">>, <<"/","r","?","u","r","l","=","j","u","n","k">>)>>)>>],
      \* a root article whose url wraps the path of a newsletter page
      S_ld_mail |->
        [EmptyPage EXCEPT
           !.json_ld = <<ObjectBlock(News(<<"M","a","i","l">>, <<"/","r","?","u","r","l","=","%","2","F","n","e","w","s","l","e","t","t","e","r","%","2","F","x">>))>>],
      \* a root article with a promotional headline
      S_ld_promo |->
        [EmptyPage EXCEPT
           !.json_ld = <<ObjectBlock(News(<<"S","u","b","s","c","r","i","b","e"," ","n","o","w">>, <<"/","2","0","2","4","/","0","5","/","0","1","/","p">>))>>],
      \* one article element with a promotional heading
      S_promo |->
        [EmptyPage EXCEPT
           !.body = <<ArticleEl(2, Some(<<"S","u","p","p","o","r","t"," ","u","s">>), Some(A(<<"/","2","0","2","4","/","0","5","/","0","1","/","u">>, <<"S","u","p","p","o","r","t"," ","u","s">>)),
                                None)>>],
      \* nothing to extract
      S_none |-> [EmptyPage EXCEPT !.title_el = Some(<<"H","o","m","e">>)],
      \* article elements: two with one link, one blacklisted, one without heading
      S_articles |->
        [EmptyPage EXCEPT
           !.body = <<ArticleEl(2, Some(<<"O","n","e">>), Some(A(<<"/","2","0","2","4","/","0","5","/","0","1","/","s">>, <<"O","n","e">>)), Some(<<"L","e","a","d">>)),
                      ArticleEl(3, Some(<<"T","w","o">>), Some(A(<<"/","2","0","2","4","/","0","5","/","0","1","/","s">>, <<"T","w","o">>)), None),
                      ArticleEl(2, Some(<<"M","a","i","l">>), Some(A(<<"/","n","e","w","s","l","e","t","t","e","r","/","x">>, <<"M","a","i","l">>)), None),
                      ArticleEl(2, None, None, None)>>],
      \* anchors: a listing page, an article, another domain, a blacklisted path
      S_links |->
        [EmptyPage EXCEPT
           !.body = <<AnchorEl(AImg(<<"/","n","e","w","s">>, <<"N","e","w","s">>)),
                      AnchorEl(A(<<"/","2","0","2","4","/","0","5","/","0","1","/","s">>, <<"s">>)),
                      AnchorEl(A(<<"h","t","t","p",":","/","/","b",".","c","o","/","2","0","2","4","/","0","5","/","0","1","/","z">>, <<"z">>)),
                      AnchorEl(ACard(<<"/","s","i","g","n","u","p">>, <<"J","o","i","n">>)),
                      AnchorEl(ACard(<<"/","s","t","o","r","y","/","y">>, <<"y">>))>>],
      \* anchors: an article, then the listing page that links it too
      S_mixed |->
        [EmptyPage EXCEPT
           !.body = <<AnchorEl(A(<<"/","2","0","2","4","/","0","5","/","0","1","/","s">>, <<"s">>)),
                      AnchorEl(AImg(<<"/","n","e","w","s">>, <<"N","e","w","s">>))>>],
      \* a single article with a related section
      S_single |->
        [EmptyPage EXCEPT
           !.metas = <<Meta(<<"o","g",":","t","y","p","e">>, Some(<<"a","r","t","i","c","l","e">>))>>,
           !.body = <<HeadingEl(1, Some(<<"M","a","i","n">>)),
                      RelatedEl(<<A(<<"/","2","0","2","4","/","0","5","/","0","1","/","r">>, <<"R","e","l">>),
                                  A(<<"/","a">>, <<"I","n","d","e","x">>),
                                  A(<<"/","2","0","2","4","/","0","5","/","0","1","/","r">>, <<"A","g","a","i","n">>),
                                  A(<<"/","2","0","2","4","/","0","5","/","0","1","/","q">>, <<" ">>)>>)>>],
      \* an article page described by its meta elements
      A_meta |->
        [EmptyPage EXCEPT
           !.metas = <<Meta(<<"o","g",":","t","i","t","l","e">>, Some(<<"S","t","o","r","y">>)),
                       Meta(<<"d","e","s","c","r","i","p","t","i","o","n">>, Some(<<"D","e","s","c">>)),
                       Meta(<<"p","u","b","d","a","t","e">>, Some(<<"2","0","2","4","-","0","5","-","0","1","T","0","0",":","0","0",":","0","0","Z">>))>>,
           !.body = <<ImgEl(Some(<<"/","i",".","p","n","g">>))>>],
      \* an article page whose structured data names it with a tracking parameter
      A_ld_utm |->
        [EmptyPage EXCEPT
           !.json_ld = <<ObjectBlock(News(<<"D","e","a","l">>, <<"/","2","0","2","4","/","0","5","/","0","1","/","d","?","u","t","m","_","s","o","u","r","c","e","=","n","e","w","s","l","e","t","t","e","r">>))>>],
      \* an article page whose structured data names a section page
      A_ld_section |->
        [EmptyPage EXCEPT
           !.json_ld = <<MainBlock(News(<<"T","o","p","i","c">>, <<"/","t","a","g","/","x">>))>>],
      \* an error page
      A_error |-> [EmptyPage EXCEPT !.title_el = Some(<<"P","a","g","e"," ","n","o","t"," ","f","o","u","n","d">>)],
      \* an article page whose title meta element is empty
      A_blank |->
        [EmptyPage EXCEPT
           !.metas = <<Meta(<<"o","g",":","t","i","t","l","e">>, Some(<<>>))>>,
           !.body = <<HeadingEl(1, Some(<<"H","e","a","d">>))>>],
      \* a section page: two articles, another domain, a page that is no article
      L_list |->
        [EmptyPage EXCEPT
           !.body = <<AnchorEl(A(<<"/","2","0","2","4","/","0","5","/","0","1","/","s">>, <<"s">>)),
                      AnchorEl(A(<<"h","t","t","p",":","/","/","b",".","c","o","/","2","0","2","4","/","0","5","/","0","1","/","z">>, <<"z">>)),
                      AnchorEl(A(<<"/","c","o","n","t","a","c","t">>, <<"C","o","n","t","a","c","t">>)),
                      AnchorEl(AImg(<<"/","s","t","o","r","y","/","y">>, <<"y">>))>>] ]

StartPages ==
    {"S_feed", "S_graph_a", "S_graph_t", "S_graph_dup", "S_ld_blank", "S_ld_wrapped",
     "S_ld_mail", "S_ld_promo", "S_promo", "S_none", "S_articles", "S_links", "S_mixed", "S_single"}

\* the pages the server may answer a request for url with
Serve(url) ==
    IF url.path = <<"/">> THEN StartPages
    ELSE IF url.path = <<"/","n","e","w","s">> THEN {"L_list"}
    ELSE IF url.path = <<"/","2","0","2","4","/","0","5","/","0","1","/","s">> THEN {"A_meta", "A_ld_utm"}
    ELSE IF url.path = <<"/","s","t","o","r","y","/","y">> THEN {"A_blank", "A_error"}
    ELSE IF url.path = <<"/","2","0","2","4","/","0","5","/","0","1","/","r">> THEN {"A_ld_section"}
    ELSE {"A_meta"}

\* the bodies the server may answer a request for a feed with
FeedTexts == {<<"<","r","s","s","/",">">>, <<>>}

\* ------------------------------------------------------------------ run()

VARIABLES
    pc,          \* where run() is
    url,         \* args.url
    max_pages,   \* args.max_pages
    start_url,   \* the parsed start URL
    document,    \* the name of the parsed start page
    items,       \* the items extract_from_html has collected
    candidates,  \* the candidate URLs of build_candidate_list
    ci,          \* the index of the candidate fetch_candidates is at
    doc_list,    \* the name of the listing page extract_from_listing_page scans
    ai,          \* the index of the anchor of the listing page it is at
    attempt,     \* the attempt of get_text_with_headers_retry
    fetch_log,   \* every call of get_text_with_headers so far
    stages,      \* the stages of the pipeline that have run
    feed_text,   \* the body of the linked feed, once fetched
    filter_in,   \* the items filter_items was called with
    arg,         \* the argument of a function called on its own
    res,         \* what its calls have returned
    rss_items,   \* the items write_rss was called with
    pending,     \* what is left to write to standard output
    stdout,      \* what standard output has taken
    error        \* the error run() returned with

vars ==
    <<pc, url, max_pages, start_url, document, items, candidates, ci, doc_list, ai,
      attempt, fetch_log, stages, feed_text, filter_in, arg, res,
      rss_items, pending, stdout, error>>

\* the most tokens of a chunk that a failing write may have written
MaxPartial == 1

\* max_retries of the fetch of a page reached through a listing page
MaxRetries == 2
BackoffBaseMs == 1000
BackoffCapSecs == 10

\* a backoff of the base before every retry, without the doubling
Backoff_NoDoubling(att) ==
    IF att > 0 THEN Min(BackoffBaseMs, BackoffCapSecs * 1000) ELSE 0

\* the sleep of get_text_with_headers_retry before an attempt, in milliseconds
Backoff(att) ==
    IF att > 0 THEN Min(BackoffBaseMs * 2^(att - 1), BackoffCapSecs * 1000) ELSE 0

\* what a call of get_text_with_headers(url) may return: an error, or a page
Fail == "fail"
FetchOutcomes(u) == {Fail} \cup Serve(u)

Fetched(u, kind, att, r) ==
    [url |-> UrlStr(u), kind |-> kind, attempt |-> att, wait |-> Backoff(att),
     ok |-> r # Fail]

Init ==
    /\ pc = "parse"
    /\ url \in StartUrls
    /\ max_pages \in 0..MaxPagesBound
    /\ start_url = NoUrl
    /\ document = "none"
    /\ items = <<>>
    /\ candidates = <<>>
    /\ ci = 0
    /\ doc_list = "none"
    /\ ai = 0
    /\ attempt = 0
    /\ fetch_log = <<>>
    /\ stages = <<>>
    /\ feed_text = None
    /\ filter_in = None
    /\ arg = None
    /\ res = <<>>
    /\ rss_items = None
    /\ pending = <<>>
    /\ stdout = <<>>
    /\ error = ""

\* return Err(e)
Raise(e) == pc' = "error" /\ error' = e

\* Url::parse(&args.url)?
ParseStartUrl ==
    /\ pc = "parse"
    /\ IF UrlParse(url).ok
       THEN pc' = "fetch_start" /\ start_url' = UrlParse(url) /\ UNCHANGED error
       ELSE Raise("relative URL without a base") /\ UNCHANGED start_url
    /\ UNCHANGED <<url, max_pages, document, items, candidates, ci, doc_list, ai, attempt,
                   fetch_log, stages, rss_items, pending, stdout>>
    /\ UNCHANGED <<feed_text, filter_in, arg, res>>

\* run() without the ? on the fetch of the start page: an empty document on failure
FetchStartPage_IgnoreError ==
    /\ pc = "fetch_start"
    /\ \E r \in FetchOutcomes(start_url) :
        /\ fetch_log' = Append(fetch_log, Fetched(start_url, "start", 0, r))
        /\ pc' = "detect_feed"
        /\ document' = IF r # Fail THEN r ELSE "S_none"
    /\ UNCHANGED <<url, max_pages, start_url, items, candidates, ci, doc_list, ai, attempt,
                   stages, rss_items, pending, stdout, error>>
    /\ UNCHANGED <<feed_text, filter_in, arg, res>>

\* get_text_with_headers(&client, &start_url)? and Html::parse_document
FetchStartPage ==
    /\ pc = "fetch_start"
    /\ \E r \in FetchOutcomes(start_url) :
        /\ fetch_log' = Append(fetch_log, Fetched(start_url, "start", 0, r))
        /\ IF r # Fail
           THEN pc' = "detect_feed" /\ document' = r /\ UNCHANGED error
           ELSE Raise("fetch failed") /\ UNCHANGED document
    /\ UNCHANGED <<url, max_pages, start_url, items, candidates, ci, doc_list, ai, attempt,
                   stages, rss_items, pending, stdout>>
    /\ UNCHANGED <<feed_text, filter_in, arg, res>>

\* 1) find_linked_feed(&document, &start_url)
DetectFeed ==
    /\ pc = "detect_feed"
    /\ stages' = Append(stages, "feed")
    /\ pc' = IF find_linked_feed(Pages[document], start_url).some
             THEN "fetch_feed" ELSE "json_ld"
    /\ UNCHANGED <<url, max_pages, start_url, document, items, candidates, ci, doc_list, ai,
                   attempt, fetch_log, rss_items, pending, stdout, error>>
    /\ UNCHANGED <<feed_text, filter_in, arg, res>>

\* the fetched feed alone, without the line feed run() writes after it
FeedOutput_NoNewline(text) == <<text>>

\* what run() writes for a fetched feed: write_all(feed_text), write_all(b"\n")
FeedOutput(text) == <<text, <<"\n">>>>

\* the fetch of the linked feed, going on to the structured data after a success
FetchFeed_Continue ==
    /\ pc = "fetch_feed"
    /\ LET feed_url == find_linked_feed(Pages[document], start_url).v
       IN  \E r \in {<<Fail>>} \cup FeedTexts :
            /\ fetch_log' = Append(fetch_log,
                                   Fetched(feed_url, "feed", 0, IF r = <<Fail>> THEN Fail ELSE "feed"))
            /\ pc' = "json_ld"
            /\ IF r # <<Fail>>
               THEN feed_text' = Some(r) /\ pending' = FeedOutput(r)
               ELSE UNCHANGED <<feed_text, pending>>
    /\ UNCHANGED <<url, max_pages, start_url, document, items, candidates, ci, doc_list, ai,
                   attempt, stages, rss_items, stdout, error>>
    /\ UNCHANGED <<filter_in, arg, res>>

\* get_text_with_headers(&client, &feed_url): the feed is what run() will write
FetchFeed ==
    /\ pc = "fetch_feed"
    /\ LET feed_url == find_linked_feed(Pages[document], start_url).v
       IN  \E r \in {<<Fail>>} \cup FeedTexts :
            /\ fetch_log' = Append(fetch_log,
                                   Fetched(feed_url, "feed", 0, IF r = <<Fail>> THEN Fail ELSE "feed"))
            /\ IF r # <<Fail>>
               THEN pc' = "write" /\ feed_text' = Some(r) /\ pending' = FeedOutput(r)
               ELSE pc' = "json_ld" /\ UNCHANGED <<feed_text, pending>>
    /\ UNCHANGED <<url, max_pages, start_url, document, items, candidates, ci, doc_list, ai,
                   attempt, stages, rss_items, stdout, error>>
    /\ UNCHANGED <<filter_in, arg, res>>

\* write_rss(&start_url, its): build the document, then write it
write_rss(its) ==
    LET Built(doc) ==
            IF doc.panic
            THEN pc' = "panic" /\ UNCHANGED pending
            ELSE pc' = "write" /\ pending' = <<doc.out, <<"\n">>>>
    IN  rss_items' = Some(its) /\ Built(RssDocument(start_url, its))

\* the filter run() applies to the items of the start page's structured data
KeptJsonLd(it) ==
    LET Allowed(u) == u.ok => ~is_blacklisted_url(u) /\ ~is_listing_page(u, start_url)
    IN  /\ ~is_error_page(Pages[document], it.title, it.description)
        /\ Allowed(UrlParse(it.link))

\* 2) extract_from_json_ld(&document, &start_url) and the filter of its items
ExtractJsonLd ==
    /\ pc = "json_ld"
    /\ stages' = Append(stages, "json_ld")
    /\ LET Kept(filtered) ==
               IF filtered # <<>>
               THEN write_rss(filtered)
               ELSE pc' = "html" /\ UNCHANGED <<rss_items, pending>>
           Found(found) == Kept(IF found.some THEN SelectSeq(found.v, KeptJsonLd) ELSE <<>>)
       IN  Found(extract_from_json_ld(Pages[document], start_url))
    /\ UNCHANGED <<url, max_pages, start_url, document, items, candidates, ci, doc_list, ai,
                   attempt, fetch_log, stdout, error>>
    /\ UNCHANGED <<feed_text, filter_in, arg, res>>

\* 3) extract_from_html, up to fetch_candidates: the article elements, the related
\* articles and the candidate list of the start page
ExtractLocal ==
    /\ pc = "html"
    /\ stages' = Append(stages, "html")
    /\ LET Local(doc, local) ==
               IF Len(local) >= max_pages /\ local # <<>>
               THEN /\ items' = local
                    /\ pc' = "emit"
                    /\ UNCHANGED <<candidates, ci>>
               ELSE /\ items' = IF looks_like_single_article(doc)
                                THEN extract_related_articles(doc, start_url, max_pages, local)
                                ELSE local
                    /\ candidates' = build_candidate_list(doc, start_url, max_pages)
                    /\ ci' = 1
                    /\ pc' = "candidates"
           Parsed(doc) == Local(doc, extract_article_elements(doc, start_url, max_pages, <<>>))
       IN  Parsed(Pages[document])
    /\ UNCHANGED <<url, max_pages, start_url, document, doc_list, ai, attempt, fetch_log,
                   rss_items, pending, stdout, error>>
    /\ UNCHANGED <<feed_text, filter_in, arg, res>>

\* fetch_candidates: the end of the loop over the candidates
CandidatesDone ==
    /\ pc = "candidates"
    /\ ci > Len(candidates) \/ Len(items) >= max_pages
    /\ pc' = "filter"
    /\ UNCHANGED <<url, max_pages, start_url, document, items, candidates, ci, doc_list, ai,
                   attempt, fetch_log, stages, rss_items, pending, stdout, error>>
    /\ UNCHANGED <<feed_text, filter_in, arg, res>>

\* fetch_candidates with a second attempt on a candidate whose fetch failed
FetchCandidate_RetryOnce ==
    /\ pc = "candidates"
    /\ ci <= Len(candidates) /\ Len(items) < max_pages
    /\ LET Fetch(cand, listing) ==
               \E r \in FetchOutcomes(cand) :
                   /\ fetch_log' = Append(fetch_log,
                                          Fetched(cand, IF listing THEN "listing" ELSE "direct",
                                                  0, r))
                   /\ IF r = Fail
                      THEN /\ ci' = IF fetch_log[Len(fetch_log)].url = UrlStr(cand)
                                       THEN ci + 1 ELSE ci
                           /\ UNCHANGED <<pc, items, doc_list, ai>>
                      ELSE IF listing
                      THEN /\ pc' = "listing" /\ doc_list' = r /\ ai' = 1
                           /\ UNCHANGED <<ci, items>>
                      ELSE /\ items' = extract_item_from_doc(Pages[r], cand, start_url, items)
                           /\ ci' = ci + 1
                           /\ UNCHANGED <<pc, doc_list, ai>>
       IN  Fetch(candidates[ci], is_listing_page(candidates[ci], start_url))
    /\ UNCHANGED <<url, max_pages, start_url, document, candidates, attempt, stages,
                   rss_items, pending, stdout, error>>
    /\ UNCHANGED <<feed_text, filter_in, arg, res>>

\* fetch_candidates leaving its loop at the first candidate whose fetch fails
FetchCandidate_StopOnFailure ==
    /\ pc = "candidates"
    /\ ci <= Len(candidates) /\ Len(items) < max_pages
    /\ LET Fetch(cand, listing) ==
               \E r \in FetchOutcomes(cand) :
                   /\ fetch_log' = Append(fetch_log,
                                          Fetched(cand, IF listing THEN "listing" ELSE "direct",
                                                  0, r))
                   /\ IF r = Fail
                      THEN ci' = Len(candidates) + 1 /\ UNCHANGED <<pc, items, doc_list, ai>>
                      ELSE IF listing
                      THEN /\ pc' = "listing" /\ doc_list' = r /\ ai' = 1
                           /\ UNCHANGED <<ci, items>>
                      ELSE /\ items' = extract_item_from_doc(Pages[r], cand, start_url, items)
                           /\ ci' = ci + 1
                           /\ UNCHANGED <<pc, doc_list, ai>>
       IN  Fetch(candidates[ci], is_listing_page(candidates[ci], start_url))
    /\ UNCHANGED <<url, max_pages, start_url, document, candidates, attempt, stages,
                   rss_items, pending, stdout, error>>
    /\ UNCHANGED <<feed_text, filter_in, arg, res>>

\* fetch_candidates: one candidate, a listing page or an article page
FetchCandidate ==
    /\ pc = "candidates"
    /\ ci <= Len(candidates) /\ Len(items) < max_pages
    /\ LET Fetch(cand, listing) ==
               \E r \in FetchOutcomes(cand) :
                   /\ fetch_log' = Append(fetch_log,
                                          Fetched(cand, IF listing THEN "listing" ELSE "direct",
                                                  0, r))
                   /\ IF r = Fail
                      THEN ci' = ci + 1 /\ UNCHANGED <<pc, items, doc_list, ai>>
                      ELSE IF listing
                      THEN /\ pc' = "listing" /\ doc_list' = r /\ ai' = 1
                           /\ UNCHANGED <<ci, items>>
                      ELSE /\ items' = extract_item_from_doc(Pages[r], cand, start_url, items)
                           /\ ci' = ci + 1
                           /\ UNCHANGED <<pc, doc_list, ai>>
       IN  Fetch(candidates[ci], is_listing_page(candidates[ci], start_url))
    /\ UNCHANGED <<url, max_pages, start_url, document, candidates, attempt, stages,
                   rss_items, pending, stdout, error>>
    /\ UNCHANGED <<feed_text, filter_in, arg, res>>

\* the anchor of the listing page extract_from_listing_page is at, resolved
ListingAnchors == SelectA(Pages[doc_list])
ListingTarget == UrlJoin(candidates[ci], ListingAnchors[ai].href.v)

\* is_article_candidate, for an anchor of the listing page that resolves to abs
is_article_candidate(a, abs) ==
    LET Of(s) == RE_DATE(s) \/ RE_ARTICLE(s) \/ a.img.some
    IN  Of(UrlStr(abs))

\* extract_from_listing_page: the end of the loop over the anchors
ListingDone ==
    /\ pc = "listing"
    /\ ai > Len(ListingAnchors) \/ Len(items) >= max_pages
    /\ pc' = "candidates"
    /\ ci' = ci + 1
    /\ UNCHANGED <<url, max_pages, start_url, document, items, candidates, doc_list, ai,
                   attempt, fetch_log, stages, rss_items, pending, stdout, error>>
    /\ UNCHANGED <<feed_text, filter_in, arg, res>>

\* extract_from_listing_page: one anchor, skipped or taken as an article candidate
ListingAnchor ==
    /\ pc = "listing"
    /\ ai <= Len(ListingAnchors) /\ Len(items) < max_pages
    /\ LET Step(taken) ==
               IF taken
               THEN pc' = "retry" /\ attempt' = 0 /\ UNCHANGED ai
               ELSE ai' = ai + 1 /\ UNCHANGED <<pc, attempt>>
           Resolved(a, abs) ==
               Step(/\ a.href.some /\ abs.ok
                    /\ Domain(abs) = Domain(start_url)
                    /\ \A i \in 1..Len(items) : items[i].link # UrlStr(abs)
                    /\ is_article_candidate(a, abs))
           Anchors(as) == Resolved(as[ai], UrlJoin(candidates[ci], as[ai].href.v))
       IN  Anchors(ListingAnchors)
    /\ UNCHANGED <<url, max_pages, start_url, document, items, candidates, ci, doc_list,
                   fetch_log, stages, rss_items, pending, stdout, error>>
    /\ UNCHANGED <<feed_text, filter_in, arg, res>>

\* get_text_with_headers_retry without the test of attempt against max_retries
RetryFetch_NoCeiling ==
    /\ pc = "retry"
    /\ LET Fetch(abs) ==
               \E r \in FetchOutcomes(abs) :
                   /\ fetch_log' = Append(fetch_log, Fetched(abs, "article", attempt, r))
                   /\ IF r # Fail
                      THEN /\ items' = extract_item_from_doc(Pages[r], abs, start_url, items)
                           /\ pc' = "listing" /\ ai' = ai + 1
                           /\ UNCHANGED attempt
                      ELSE attempt' = attempt + 1 /\ UNCHANGED <<pc, ai, items>>
       IN  Fetch(ListingTarget)
    /\ UNCHANGED <<url, max_pages, start_url, document, candidates, ci, doc_list, stages,
                   rss_items, pending, stdout, error>>
    /\ UNCHANGED <<feed_text, filter_in, arg, res>>

\* get_text_with_headers_retry(&client, &abs, 10000, 2): one attempt
RetryFetch ==
    /\ pc = "retry"
    /\ LET Fetch(abs) ==
               \E r \in FetchOutcomes(abs) :
                   /\ fetch_log' = Append(fetch_log, Fetched(abs, "article", attempt, r))
                   /\ IF r # Fail
                      THEN /\ items' = extract_item_from_doc(Pages[r], abs, start_url, items)
                           /\ pc' = "listing" /\ ai' = ai + 1
                           /\ UNCHANGED attempt
                      ELSE IF attempt < MaxRetries
                      THEN attempt' = attempt + 1 /\ UNCHANGED <<pc, ai, items>>
                      ELSE pc' = "listing" /\ ai' = ai + 1 /\ UNCHANGED <<attempt, items>>
       IN  Fetch(ListingTarget)
    /\ UNCHANGED <<url, max_pages, start_url, document, candidates, ci, doc_list, stages,
                   rss_items, pending, stdout, error>>
    /\ UNCHANGED <<feed_text, filter_in, arg, res>>

\* 5) filter_items(base, &mut items), the last step of extract_from_html
FilterItems ==
    /\ pc = "filter"
    /\ filter_in' = Some(items)
    /\ items' = filter_items(start_url, items)
    /\ pc' = "emit"
    /\ UNCHANGED <<url, max_pages, start_url, document, candidates, ci, doc_list, ai,
                   attempt, fetch_log, stages, rss_items, pending, stdout, error>>
    /\ UNCHANGED <<feed_text, arg, res>>

\* run() writing the head of the feed before it looks at the items
EmitItems_WriteFirst ==
    /\ pc = "emit"
    /\ IF items = <<>>
       THEN /\ Raise("no articles found")
            /\ stdout' = stdout \o RssDocument(start_url, items).out
            /\ UNCHANGED <<rss_items, pending>>
       ELSE write_rss(items) /\ UNCHANGED <<error, stdout>>
    /\ UNCHANGED <<url, max_pages, start_url, document, items, candidates, ci, doc_list, ai,
                   attempt, fetch_log, stages>>
    /\ UNCHANGED <<feed_text, filter_in, arg, res>>

\* run() with the items extract_from_html returned
EmitItems ==
    /\ pc = "emit"
    /\ IF items = <<>>
       THEN Raise("no articles found") /\ UNCHANGED <<rss_items, pending>>
       ELSE write_rss(items) /\ UNCHANGED error
    /\ UNCHANGED <<url, max_pages, start_url, document, items, candidates, ci, doc_list, ai,
                   attempt, fetch_log, stages, stdout>>
    /\ UNCHANGED <<feed_text, filter_in, arg, res>>

\* io::stdout().write_all(chunk)?: all of the chunk, or an error after some of it
WriteAll ==
    /\ pc = "write"
    /\ pending # <<>>
    /\ \/ /\ stdout' = stdout \o Head(pending)
          /\ pending' = Tail(pending)
          /\ UNCHANGED <<pc, error>>
       \/ /\ \E n \in 0..Min(MaxPartial, Len(Head(pending)) - 1) :
                stdout' = stdout \o SubSeq(Head(pending), 1, n)
          /\ Raise("write failed")
          /\ UNCHANGED pending
    /\ UNCHANGED <<url, max_pages, start_url, document, items, candidates, ci, doc_list, ai,
                   attempt, fetch_log, stages, rss_items>>
    /\ UNCHANGED <<feed_text, filter_in, arg, res>>

\* io::stdout().flush()? and return Ok(())
Flush ==
    /\ pc = "write"
    /\ pending = <<>>
    /\ \/ pc' = "done" /\ UNCHANGED error
       \/ Raise("flush failed")
    /\ UNCHANGED <<url, max_pages, start_url, document, items, candidates, ci, doc_list, ai,
                   attempt, fetch_log, stages, rss_items, pending, stdout>>
    /\ UNCHANGED <<feed_text, filter_in, arg, res>>

Next ==
    \/ ParseStartUrl
    \/ FetchStartPage
    \/ DetectFeed
    \/ FetchFeed
    \/ ExtractJsonLd
    \/ ExtractLocal
    \/ CandidatesDone
    \/ FetchCandidate
    \/ ListingDone
    \/ ListingAnchor
    \/ RetryFetch
    \/ FilterItems
    \/ EmitItems
    \/ WriteAll
    \/ Flush

Spec == Init /\ [][Next]_vars

\* ------------------------------------------------------------------ filter_items alone

\* the longest list filter_items is given
MaxFilterLen == 4

\* items for filter_items: two that share a canonical link, two other articles, a
\* promotion at the link of one of them, a link that is no URL
FilterUniverse ==
    { Item(<<"O","n","e">>, <<"h","t","t","p",":","/","/","a",".","c","o","/","x","/","y","/","a">>, None, None, None),
      Item(<<"T","w","o">>, <<"h","t","t","p",":","/","/","a",".","c","o","/","x","/","y","/","a","?","u","t","m","_","s","o","u","r","c","e","=","x","#","c">>, None, None, None),
      Item(<<"B","e","e">>, <<"h","t","t","p",":","/","/","a",".","c","o","/","x","/","y","/","b">>, None, None, None),
      Item(<<"C","e","e">>, <<"h","t","t","p",":","/","/","a",".","c","o","/","x","/","y","/","c">>, None, None, None),
      Item(<<"S","u","b","s","c","r","i","b","e"," ","n","o","w">>, <<"h","t","t","p",":","/","/","a",".","c","o","/","x","/","y","/","b">>, None, None, None),
      Item(<<"R","a","w">>, <<"j","u","n","k">>, None, None, None) }

\* extract_from_html at its call of filter_items, with any list of these items
InitFilter ==
    /\ pc = "filter"
    /\ url = <<"h","t","t","p",":","/","/","a",".","c","o","/">>
    /\ start_url = UrlParse(url)
    /\ document = "S_none"
    /\ items \in UNION { [1..n -> FilterUniverse] : n \in 0..MaxFilterLen }
    /\ max_pages = Len(items)
    /\ candidates = <<>>
    /\ ci = 1
    /\ doc_list = "none"
    /\ ai = 0
    /\ attempt = 0
    /\ fetch_log = <<Fetched(start_url, "start", 0, document)>>
    /\ stages = <<"feed", "json_ld", "html">>
    /\ feed_text = None
    /\ filter_in = None
    /\ arg = None
    /\ res = <<>>
    /\ rss_items = None
    /\ pending = <<>>
    /\ stdout = <<>>
    /\ error = ""

SpecFilter == InitFilter /\ [][FilterItems]_vars

\* ------------------------------------------------------------------ write_rss alone

\* by how many characters a text may pass the last length that fits the cap
MaxOver == 1

\* texts at the cap: a character of one, two or three bytes repeated, alone and
\* after an "a", with lengths around the number of them that fill MAX_TEXT_LEN bytes
LongTexts ==
    LET Repeat(c, n) == [i \in 1..n |-> c]
        Fill(c) == MAX_TEXT_LEN \div ByteLen(<<c>>)
        Around(c) == { Repeat(c, n) : n \in (Fill(c) - 1)..(Fill(c) + MaxOver) }
        Texts(c) == Around(c) \cup { <<"a">> \o t : t \in Around(c) }
    IN  UNION { Texts(c) : c \in {"a", "U+00E9", "U+2019"} }

\* run() at its call of write_rss with one item whose title is such a text
InitWrite ==
    /\ pc = "emit"
    /\ url = <<"h","t","t","p",":","/","/","a",".","c","o","/">>
    /\ start_url = UrlParse(url)
    /\ document = "S_none"
    /\ max_pages = 1
    /\ \E title \in LongTexts : \E description \in {None, Some(<<"L","e","a","d">>)} :
          items = <<Item(title, <<"h","t","t","p",":","/","/","a",".","c","o","/","2","0","2","4","/","0","5","/","0","1","/","s">>, description, None, None)>>
    /\ candidates = <<>>
    /\ ci = 1
    /\ doc_list = "none"
    /\ ai = 0
    /\ attempt = 0
    /\ fetch_log = <<Fetched(start_url, "start", 0, document)>>
    /\ stages = <<"feed", "json_ld", "html">>
    /\ feed_text = None
    /\ filter_in = None
    /\ arg = None
    /\ res = <<>>
    /\ rss_items = None
    /\ pending = <<>>
    /\ stdout = <<>>
    /\ error = ""

SpecWrite == InitWrite /\ [][EmitItems \/ WriteAll \/ Flush]_vars

\* ------------------------------------------------------------------ functions called on their own

\* the most parameters of a query string canonicalize_url_str is called with
MaxParams == 2

\* the strings canonicalize_url_str is called with: URLs that parse (one of them
\* with upper-case scheme and host) and strings that do not, with no query, an
\* empty one or up to MaxParams parameters (tracking keys in either case, other
\* keys, an empty key, escapes of "%" and of the space), with and without a fragment
CanonicalizeInputs ==
    LET Params == {<<"u","t","m","_","s","o","u","r","c","e","=","x">>, <<"f","b","c","l","i","d","=","1">>, <<"U","T","M","_","x","=">>, <<"a","=","1">>, <<"=","v">>, <<"b","=","%","2","5","2","F">>,
                   <<"q","=","a","+","b">>}
        Q[n \in 0..MaxParams] ==
            IF n = 0 THEN {<<>>}
            ELSE Q[n - 1] \cup { IF q = <<>> THEN p ELSE q \o <<"&">> \o p :
                                 <<q, p>> \in Q[n - 1] \X Params }
        Queries == {<<>>, <<"?">>} \cup { <<"?">> \o q : q \in Q[MaxParams] \ {<<>>} }
        Bases == {<<"h","t","t","p",":","/","/","a",".","c","o","/","p">>, <<"H","T","T","P",":","/","/","A",".","c","o","/","p">>, <<"j","u","n","k">>, <<"/","p">>}
        Fragments == {<<>>, <<"#">>, <<"#","c">>}
    IN  { b \o q \o f : <<b, q, f>> \in Bases \X Queries \X Fragments }

\* how many times over a text fix_mojibake is called with has been mis-decoded
MaxMisdecodings == 4

\* the texts fix_mojibake is called with: clean texts, and the same texts after
\* their UTF-8 bytes were read as Latin-1, up to MaxMisdecodings times over
NormalizeInputs ==
    LET Latin1(b) == IF \E k \in 1..Len(NonAscii) : NonAscii[k][2] = b
                     THEN NonAscii[CHOOSE k \in 1..Len(NonAscii) : NonAscii[k][2] = b][1]
                     ELSE b
        Utf8(c) == IF IsNonAscii(c) THEN NonAscii[RowOf(c)][3] ELSE <<c>>
        Misdecode(t) ==
            LET B[i \in 0..Len(t)] == IF i = 0 THEN <<>> ELSE B[i - 1] \o Utf8(t[i])
            IN  [j \in 1..Len(B[Len(t)]) |-> Latin1(B[Len(t)][j])]
        M[n \in 0..MaxMisdecodings] ==
            IF n = 0 THEN {<<"U+00E9">>, <<"c","a","f">> \o <<"U+00E9">>, <<"x", "U+00A0", "y">>}
            ELSE { Misdecode(t) : t \in M[n - 1] }
    IN  UNION { M[n] : n \in 0..MaxMisdecodings }
          \cup {<<>>, <<" ","a"," "," ","b"," ">>, <<"x", "U+2122">>}

\* the URLs and bases is_listing_page is called with: on the base's domain and
\* off it, with the root path, paths with and without a section keyword, of one
\* to five segments, with a date and with an article token
ListingInputs ==
    LET Hosts == {<<"h","t","t","p",":","/","/","a",".","c","o">>, <<"h","t","t","p","s",":","/","/","b",".","c","o">>}
        Paths == {<<>>, <<"/">>, <<"/","n","e","w","s">>, <<"/","N","e","w","s","/","x">>, <<"/","a","/","b","/","c","/","n","e","w","s","-","x">>,
                  <<"/","n","e","w","s","/","2","0","2","4","/","0","5","/","0","1","/","s","t","o","r","y","-","t","i","t","l","e">>, <<"/","2","0","2","4","/","0","5","/","0","1","/","s","t","o","r","y","-","t","i","t","l","e">>,
                  <<"/","s","t","o","r","y","/","x">>, <<"/","a">>, <<"/","a","/","b","/","c">>}
        Bases == {<<"h","t","t","p",":","/","/","a",".","c","o","/">>, <<"h","t","t","p","s",":","/","/","A",".","c","o","/","x","/","y">>, <<"h","t","t","p",":","/","/","b",".","c","o","/">>}
    IN  { [f |-> "is_listing_page", s |-> h \o p, base |-> b] :
          <<h, p, b>> \in Hosts \X Paths \X Bases }

\* a caller that holds an argument and has not called yet
InitCalls ==
    /\ arg \in { Some([f |-> "canonicalize_url_str", s |-> s]) : s \in CanonicalizeInputs }
               \cup { Some([f |-> "fix_mojibake", s |-> s]) : s \in NormalizeInputs }
               \cup { Some(a) : a \in ListingInputs }
    /\ res = <<>>
    /\ pc = "call"
    /\ url = <<"h","t","t","p",":","/","/","a",".","c","o","/">>
    /\ max_pages = 0
    /\ start_url = NoUrl
    /\ document = "none"
    /\ items = <<>>
    /\ candidates = <<>>
    /\ ci = 0
    /\ doc_list = "none"
    /\ ai = 0
    /\ attempt = 0
    /\ fetch_log = <<>>
    /\ stages = <<>>
    /\ feed_text = None
    /\ filter_in = None
    /\ rss_items = None
    /\ pending = <<>>
    /\ stdout = <<>>
    /\ error = ""

\* canonicalize_url_str(s), and then canonicalize_url_str of what it returned
Canonicalize ==
    /\ pc = "call" /\ arg.some /\ arg.v.f = "canonicalize_url_str"
    /\ Len(res) < 2
    /\ res' = Append(res, canonicalize_url_str(IF res = <<>> THEN arg.v.s ELSE res[Len(res)]))
    /\ UNCHANGED <<pc, url, max_pages, start_url, document, items, candidates, ci, doc_list,
                   ai, attempt, fetch_log, stages, feed_text, filter_in, arg, rss_items,
                   pending, stdout, error>>

\* fix_mojibake(s), and then fix_mojibake of what it returned
Normalize ==
    /\ pc = "call" /\ arg.some /\ arg.v.f = "fix_mojibake"
    /\ Len(res) < 2
    /\ res' = Append(res, fix_mojibake(IF res = <<>> THEN arg.v.s ELSE res[Len(res)]))
    /\ UNCHANGED <<pc, url, max_pages, start_url, document, items, candidates, ci, doc_list,
                   ai, attempt, fetch_log, stages, feed_text, filter_in, arg, rss_items,
                   pending, stdout, error>>

\* is_listing_page(u, base) for the parsed url and base
IsListingPage ==
    /\ pc = "call" /\ arg.some /\ arg.v.f = "is_listing_page"
    /\ res = <<>>
    /\ res' = <<is_listing_page(UrlParse(arg.v.s), UrlParse(arg.v.base))>>
    /\ UNCHANGED <<pc, url, max_pages, start_url, document, items, candidates, ci, doc_list,
                   ai, attempt, fetch_log, stages, feed_text, filter_in, arg, rss_items,
                   pending, stdout, error>>

SpecCalls == InitCalls /\ [][Canonicalize \/ Normalize \/ IsListingPage]_vars

\* ------------------------------------------------------------------ properties

Terminal == {"done", "error", "panic"}
WriteErrors == {"write failed", "flush failed"}
StagesRun == {stages[i] : i \in 1..Len(stages)}

RECURSIVE Flatten(_)
Flatten(chunks) == IF chunks = <<>> THEN <<>> ELSE Head(chunks) \o Flatten(Tail(chunks))

\* the start page of scenario 2: one @graph member, NewsArticle "Test", at u
ScenarioTwoPage(u) == [EmptyPage EXCEPT !.json_ld = <<GraphBlock(<<News(<<"T","e","s","t">>, u)>>)>>]

\* the start page that run() parsed is page
DocumentIs(page) == document \in DOMAIN Pages /\ Pages[document] = page

OneItemTest(its, link) ==
    /\ its.some
    /\ Len(its.v) = 1
    /\ its.v[1].title = <<"T","e","s","t">>
    /\ its.v[1].link = link

C2_FeedVerbatim ==
    (feed_text.some /\ pc = "done") => stdout = feed_text.v

\* C2, amended: when the start page links a feed and its fetch succeeds, standard
\* output ends up holding the fetched feed followed by one line feed; the feed URL is
\* the second and last fetch, and neither structured-data nor heuristic extraction
\* runs and nothing is handed to the serializer.
C2_FeedThenNewline ==
    feed_text.some =>
        /\ pc \in {"write", "done", "error"}
        /\ stdout \o Flatten(pending) = feed_text.v \o <<"\n">> \/ pc = "error"
        /\ pc = "done" => stdout = feed_text.v \o <<"\n">>
        /\ pc = "error" => error \in WriteErrors
        /\ stages = <<"feed">>
        /\ Len(fetch_log) = 2
        /\ fetch_log[2].kind = "feed" /\ fetch_log[2].ok
        /\ fetch_log[2].url = UrlStr(find_linked_feed(Pages[document], start_url).v)
        /\ rss_items = None /\ filter_in = None /\ items = <<>>

C2_Witness ==
    /\ feed_text.some /\ feed_text.v # <<>>
    /\ pc = "done"
    /\ fetch_log[2].url = <<"h","t","t","p",":","/","/","a",".","c","o","/","f","e","e","d">>
    /\ stdout = feed_text.v \o <<"\n">>

\* C3, as stated: a run that ends in an error has written no byte to standard output.
C3_NothingWrittenOnError ==
    pc = "error" => stdout = <<>>

\* C3, amended: a run that ends in an error other than a failed write or flush of the
\* output has written no byte to standard output; bytes reach standard output only in
\* the write stage, so a run that has written something either succeeds or fails with
\* a write or flush error (after which the bytes already written remain).
C3_NothingWrittenBeforeWriting ==
    /\ (pc = "error" /\ error \notin WriteErrors) => stdout = <<>>
    /\ stdout # <<>> => \/ pc \in {"write", "done"}
                        \/ pc = "error" /\ error \in WriteErrors

C3_Witness ==
    /\ pc = "error" /\ error = "no articles found"
    /\ document = "S_none"
    /\ stdout = <<>>

\* C4: an unparseable start URL ends run() with an error before any fetch; a failed
\* fetch of the start page ends it with an error after that one fetch and before any
\* stage; and once the feed, structured-data and heuristic stages have all run and the
\* heuristic stage returned no item, run() ends with "no articles found".
C4_FatalConditions ==
    /\ (pc # "parse" /\ ~UrlParse(url).ok) =>
          /\ pc = "error" /\ error = "relative URL without a base"
          /\ fetch_log = <<>> /\ stages = <<>>
    /\ (fetch_log # <<>> /\ ~fetch_log[1].ok) =>
          /\ pc = "error" /\ error = "fetch failed"
          /\ Len(fetch_log) = 1 /\ stages = <<>>
    /\ ("html" \in StagesRun /\ items = <<>> /\ pc \in Terminal \cup {"write"}) =>
          /\ pc = "error" /\ error = "no articles found"
          /\ rss_items = None
    /\ error = "no articles found" =>
          /\ stages = <<"feed", "json_ld", "html">>
          /\ items = <<>> /\ ~feed_text.some /\ rss_items = None

C4_Witness ==
    /\ pc = "error" /\ error = "no articles found"
    /\ Len(fetch_log) > 2

\* two items of its share no canonical link
UniqueByCanonicalLink(its) ==
    \A i, j \in 1..Len(its) :
        i # j => canonicalize_url_str(its[i].link) # canonicalize_url_str(its[j].link)

\* C5: no list handed to write_rss holds two items whose canonical links are equal.
C5_UniqueByCanonicalLink ==
    rss_items.some => UniqueByCanonicalLink(rss_items.v)

\* duplicates reach write_rss from the heuristic path, not only from structured data
C5_Witness ==
    /\ rss_items.some /\ ~UniqueByCanonicalLink(rss_items.v)
    /\ "html" \in StagesRun

C7_NoEmptyTitle ==
    rss_items.some => \A i \in 1..Len(rss_items.v) : rss_items.v[i].title # <<>>

C7_Witness ==
    /\ rss_items.some
    /\ \E i \in 1..Len(rss_items.v) : rss_items.v[i].title = <<>>
    /\ "html" \in StagesRun

\* the indices of the items of in that no rule drops and whose canonical link no
\* earlier such item has
FirstOccurrences(in, base) ==
    LET dropped == [i \in 1..Len(in) |-> DroppedByRule(in[i], base)]
        canon == [i \in 1..Len(in) |-> canonicalize_url_str(in[i].link)]
    IN  { i \in 1..Len(in) :
            /\ ~dropped[i]
            /\ \A j \in 1..(i - 1) : dropped[j] \/ canon[j] # canon[i] }

\* the items of in at the indices K from i on, in their order
RECURSIVE Restrict(_, _, _)
Restrict(in, K, i) ==
    IF i > Len(in) THEN <<>>
    ELSE (IF i \in K THEN <<in[i]>> ELSE <<>>) \o Restrict(in, K, i + 1)

\* C8: filter_items leaves exactly the items that no other rule drops and that are the
\* first of these with their canonical link, in the order they had: a subsequence of
\* its input, [A, B, C] for canonical links [A, B, A, C].
C8_FilterKeepsFirstOccurrences ==
    (pc = "emit" /\ filter_in.some) =>
        items = Restrict(filter_in.v, FirstOccurrences(filter_in.v, start_url), 1)

C8_Witness ==
    /\ pc = "emit" /\ filter_in.some
    /\ Len(filter_in.v) = 4
    /\ LET in == filter_in.v
           c(i) == canonicalize_url_str(in[i].link)
       IN  /\ c(1) = c(3) /\ in[1] # in[3]
           /\ c(1) # c(2) /\ c(1) # c(4) /\ c(2) # c(4)
           /\ items = <<in[1], in[2], in[4]>>

\* C9: at no point of extract_from_html, its return included, does the list hold more
\* than max_pages items.
C9_AtMostMaxPages ==
    pc \in {"candidates", "listing", "retry", "filter", "emit"} => Len(items) <= max_pages

C9_Witness ==
    /\ pc = "emit"
    /\ max_pages > 0 /\ Len(items) = max_pages
    /\ ci <= Len(candidates)
    /\ Len(fetch_log) > 1

Monus(a, b) == IF a > b THEN a - b ELSE 0

\* the most anchors a page of the site has
MaxAnchors ==
    LET counts == {Len(SelectA(Pages[n])) : n \in DOMAIN Pages}
    IN  CHOOSE m \in counts : \A k \in counts : k <= m

\* the most steps run() takes for one anchor of a listing page: the anchor, then the
\* attempts of its fetch
AnchorSteps == MaxRetries + 2

\* the most steps it takes for one candidate: its fetch, the anchors, the end of the scan
CandidateSteps == MaxAnchors * AnchorSteps + 2

\* a bound on the number of steps run() has left
Rank ==
    LET Left(cands, html, start) ==
            CASE pc \in Terminal -> 0
              [] pc = "write" -> 1 + Len(pending)
              [] pc = "emit" -> 4
              [] pc = "filter" -> 5
              [] pc = "candidates" -> cands
              [] pc = "listing" ->
                    cands + 1 + Monus(Len(ListingAnchors) + 1, ai) * AnchorSteps
              [] pc = "retry" ->
                    cands + 1 + Monus(Len(ListingAnchors), ai) * AnchorSteps
                    + Monus(MaxRetries + 1, attempt)
              [] pc = "html" -> html
              [] pc = "json_ld" -> html + 1
              [] pc = "fetch_feed" -> html + 2
              [] pc = "detect_feed" -> html + 3
              [] pc = "fetch_start" -> start + 4
              [] pc = "parse" -> start + 5
        Steps(k) == 6 + k * CandidateSteps
    IN  Left(Steps(Monus(Len(candidates) + (IF pc = "candidates" THEN 1 ELSE 0), ci)),
             1 + Steps(IF document \in DOMAIN Pages
                       THEN Len(SelectA(Pages[document])) ELSE 0),
             1 + Steps(MaxAnchors))

\* C10: every run of run() ends, in success or in an error: each step run() takes
\* lowers Rank, a natural number, so that no run takes more steps than the Rank it
\* starts with, whatever the pages served and whichever fetches fail.
C10_RunTerminates == [][Rank' < Rank]_vars

C10_Witness ==
    /\ pc = "done"
    /\ \E i \in 1..Len(fetch_log) : fetch_log[i].kind = "article" /\ fetch_log[i].attempt = MaxRetries
    /\ \E i \in 1..Len(fetch_log) : fetch_log[i].kind = "direct"

\* C11: write_rss never aborts: for a valid base URL and any item list, text fields
\* longer than MAX_TEXT_LEN made of multi-byte characters included, the serializer
\* builds its document and does not panic.
C11_SerializationNeverFails ==
    pc # "panic"

\* the serializer panics on a title of three-byte characters one character past the cap
C11_Witness ==
    /\ pc = "panic"
    /\ rss_items.some
    /\ ByteLen(rss_items.v[1].title) > MAX_TEXT_LEN
    /\ \A i \in 1..Len(rss_items.v[1].title) : rss_items.v[1].title[i] = "U+2019"
    /\ stdout = <<>>

\* C12: canonicalize is idempotent: for every string s,
\* canonicalize_url_str(canonicalize_url_str(s)) = canonicalize_url_str(s).
C12_CanonicalizeIdempotent ==
    (arg.some /\ arg.v.f = "canonicalize_url_str" /\ Len(res) = 2) => res[2] = res[1]

\* a URL with upper-case scheme and host, a tracking parameter, an escaped
\* parameter and a fragment has been canonicalized twice, the first call changing it
C12_Witness ==
    /\ arg.some /\ arg.v.f = "canonicalize_url_str"
    /\ arg.v.s = <<"H","T","T","P",":","/","/","A",".","c","o","/","p","?","u","t","m","_","s","o","u","r","c","e","=","x","&","b","=","%","2","5","2","F","#","c">>
    /\ Len(res) = 2
    /\ res[1] = <<"h","t","t","p",":","/","/","a",".","c","o","/","p","?","b","=","%","2","5","2","F">>
    /\ res[2] = res[1]

\* C13: normalize is idempotent: for every text s, text mis-decoded more often than
\* the three repair passes included, fix_mojibake(fix_mojibake(s)) = fix_mojibake(s).
C13_NormalizeIdempotent ==
    (arg.some /\ arg.v.f = "fix_mojibake" /\ Len(res) = 2) => res[2] = res[1]

\* e-acute mis-decoded four times: the first call stops after three passes at the
\* once mis-decoded text, the second call repairs that
C13_Witness ==
    /\ arg.some /\ arg.v.f = "fix_mojibake"
    /\ Len(arg.v.s) = 16
    /\ res = << <<"U+00C3", "U+00A9">>, <<"U+00E9">> >>

\* C14, as stated: for every url and base, a url with path / is a listing, a url
\* whose path contains /news is a listing, and a url with path
\* /2024/05/01/story-title is not.
C14_ListingBoundariesAnyBase ==
    (arg.some /\ arg.v.f = "is_listing_page" /\ Len(res) = 1) =>
        LET path == UrlParse(arg.v.s).path
        IN  /\ (path = <<"/">> \/ Contains(ToLower(path), <<"/","n","e","w","s">>)) => res[1]
            /\ path = <<"/","2","0","2","4","/","0","5","/","0","1","/","s","t","o","r","y","-","t","i","t","l","e">> => ~res[1]

\* C14, amended: for a url on the domain of base, path / and any path containing
\* /news are listings whatever the number of segments; a url of another domain is
\* never a listing; path /2024/05/01/story-title is never a listing, for any base.
C14_ListingBoundariesSameDomain ==
    (arg.some /\ arg.v.f = "is_listing_page" /\ Len(res) = 1) =>
        LET path == UrlParse(arg.v.s).path
            same == UrlParse(arg.v.s).host = UrlParse(arg.v.base).host
        IN  /\ (same /\ (path = <<"/">> \/ Contains(ToLower(path), <<"/","n","e","w","s">>))) => res[1]
            /\ ~same => ~res[1]
            /\ path = <<"/","2","0","2","4","/","0","5","/","0","1","/","s","t","o","r","y","-","t","i","t","l","e">> => ~res[1]

\* a path of four segments with /news in it, on the base's domain (the base
\* written with another scheme and in upper case), is classified as a listing
C14_Witness ==
    /\ arg.some /\ arg.v.f = "is_listing_page"
    /\ arg.v.s = <<"h","t","t","p",":","/","/","a",".","c","o","/","a","/","b","/","c","/","n","e","w","s","-","x">> /\ arg.v.base = <<"h","t","t","p","s",":","/","/","A",".","c","o","/","x","/","y">>
    /\ res = <<TRUE>>

C16_PipelineShortCircuits ==
    /\ [](/\ \E n \in 0..3 : stages = SubSeq(<<"feed", "json_ld", "html">>, 1, n)
          /\ feed_text.some => stages = <<"feed">> /\ rss_items = None
          /\ rss_items.some => /\ feed_text = None
                                /\ rss_items.v # <<>>
                                /\ "json_ld" \in StagesRun)
    /\ [][stages' # stages => feed_text = None /\ rss_items = None]_vars

\* the fetch of the linked feed failed, so the structured-data stage ran; it
\* yielded items, they were written, and heuristic extraction never ran
C16_Witness ==
    /\ pc = "done"
    /\ document = "S_feed"
    /\ stages = <<"feed", "json_ld">>
    /\ Len(fetch_log) = 2 /\ ~fetch_log[2].ok
    /\ feed_text = None
    /\ rss_items.some

\* C17: no item handed to write_rss, by the structured-data stage or by the
\* heuristic stage, has a title that contains, in any letter case, subscribe,
\* subscription, donate, support, newsletter or "become a member".
C17_NoPromotionalTitle ==
    rss_items.some =>
        \A i \in 1..Len(rss_items.v) :
            \A w \in {<<"s","u","b","s","c","r","i","b","e">>, <<"s","u","b","s","c","r","i","p","t","i","o","n">>, <<"d","o","n","a","t","e">>, <<"s","u","p","p","o","r","t">>, <<"n","e","w","s","l","e","t","t","e","r">>,
                       <<"b","e","c","o","m","e"," ","a"," ","m","e","m","b","e","r">>} :
                ~Contains(ToLower(rss_items.v[i].title), w)

\* the heuristic stage has handed write_rss the article element titled "Support us"
C17_Witness ==
    /\ document = "S_promo"
    /\ stages = <<"feed", "json_ld", "html">>
    /\ max_pages = 1
    /\ rss_items.some
    /\ rss_items.v[1].title = <<"S","u","p","p","o","r","t"," ","u","s">>

\* what the caps allow when every fetched page counts: the start page and the feed,
\* then for each of the at most max(m, 1) candidates its own fetch and, if it is a
\* listing page, MaxRetries + 1 attempts for each of the at most m items wanted
FetchBound(m) ==
    2 + (IF m > 1 THEN m ELSE 1) * (1 + (MaxRetries + 1) * m)

\* C18: the number of fetch attempts of a run is bounded by max_pages and the fixed
\* caps alone, whatever the number of anchors of a fetched listing page and however
\* many of the fetches fail or yield no item.
C18_FetchesBoundedByCaps ==
    Len(fetch_log) <= FetchBound(max_pages)

\* with max_pages = 1, a listing page with two article anchors whose fetches all
\* fail has cost six attempts, eight fetches in all, and the run ends without items
C18_Witness ==
    /\ pc = "error" /\ error = "no articles found"
    /\ max_pages = 1
    /\ document = "S_links"
    /\ Len(fetch_log) = 8
    /\ \A i \in 3..8 : fetch_log[i].kind = "article" /\ ~fetch_log[i].ok

\* C19: the retried fetch of a page reached through a listing page makes at most
\* three attempts; it sleeps nothing before the first, 1000 ms before the second
\* and 2000 ms before the third (min(1000 * 2^(k-1), 10000) before retry k); an
\* attempt after the first follows a failed attempt on the same URL, so the first
\* success ends it; and it gives up only after the third failure.
C19_RetryWithBackoff ==
    \A i \in 1..Len(fetch_log) :
        LET f == fetch_log[i]
        IN  f.kind = "article" =>
              /\ f.attempt \in 0..2
              /\ f.wait = (CASE f.attempt = 0 -> 0 [] f.attempt = 1 -> 1000 [] OTHER -> 2000)
              /\ f.attempt > 0 =>
                    /\ fetch_log[i - 1].kind = "article"
                    /\ fetch_log[i - 1].url = f.url
                    /\ fetch_log[i - 1].attempt = f.attempt - 1
                    /\ ~fetch_log[i - 1].ok
              /\ (i = Len(fetch_log) /\ ~f.ok /\ f.attempt < 2) =>
                    pc = "retry" /\ attempt = f.attempt + 1
              /\ (i = Len(fetch_log) /\ (f.ok \/ f.attempt = 2)) =>
                    ~(pc = "retry" /\ attempt > 0)

\* a page reached through a listing page was fetched at the third attempt, after
\* sleeps of 1000 and 2000 ms, and the scan of the listing page went on
C19_Witness ==
    /\ Len(fetch_log) >= 3
    /\ LET n == Len(fetch_log)
       IN  /\ \A j \in 0..2 : /\ fetch_log[n - j].kind = "article"
                              /\ fetch_log[n - j].attempt = 2 - j
                              /\ fetch_log[n - j].url = fetch_log[n].url
           /\ ~fetch_log[n - 2].ok /\ ~fetch_log[n - 1].ok /\ fetch_log[n].ok
           /\ fetch_log[n - 1].wait = 1000 /\ fetch_log[n].wait = 2000
    /\ pc = "listing"
    /\ items # <<>>

\* C20, as stated: the fetches of the start page, of the feed, of a listing-page
\* candidate and of a direct candidate are single attempts, each URL is fetched so
\* at most once, and after a failure of one of them the same URL is never fetched
\* again.
C20_NoSecondAttemptOnUrl ==
    \A i \in 1..Len(fetch_log) :
        fetch_log[i].kind # "article" =>
          /\ fetch_log[i].attempt = 0 /\ fetch_log[i].wait = 0
          /\ \A j \in (i + 1)..Len(fetch_log) :
                /\ fetch_log[j].kind = fetch_log[i].kind => fetch_log[j].url # fetch_log[i].url
                /\ ~fetch_log[i].ok => fetch_log[j].url # fetch_log[i].url

\* C20, amended: those fetches are single attempts without backoff, no URL is
\* fetched twice as the start page, as the feed or as a candidate, a failed start
\* fetch ends the run, and the fetch after any other such failure is never a retry:
\* attempts after the first occur only on the listing-to-candidate path.
C20_TopLevelFetchesNotRetried ==
    \A i \in 1..Len(fetch_log) :
        /\ fetch_log[i].attempt > 0 => fetch_log[i].kind = "article"
        /\ fetch_log[i].kind = "start" => i = 1 /\ (~fetch_log[i].ok => Len(fetch_log) = 1)
        /\ fetch_log[i].kind = "feed" => i = 2
        /\ fetch_log[i].kind # "article" =>
              /\ fetch_log[i].attempt = 0 /\ fetch_log[i].wait = 0
              /\ \A j \in (i + 1)..Len(fetch_log) :
                    fetch_log[j].kind \in {"listing", "direct"}
                      /\ fetch_log[i].kind \in {"listing", "direct"}
                      => fetch_log[j].url # fetch_log[i].url
              /\ (~fetch_log[i].ok /\ i < Len(fetch_log)) =>
                    fetch_log[i + 1].attempt = 0

\* the direct fetch of an article failed once and was not retried; the listing page
\* fetched next links the same article, which is then fetched on the retried path
C20_Witness ==
    /\ document = "S_mixed"
    /\ Len(fetch_log) >= 4
    /\ fetch_log[2].kind = "direct" /\ ~fetch_log[2].ok
    /\ fetch_log[3].kind = "listing" /\ fetch_log[3].ok
    /\ fetch_log[4].kind = "article" /\ fetch_log[4].attempt = 0
    /\ fetch_log[4].url = fetch_log[2].url

\* C21: a failed fetch of a candidate is local. The step that logs a failed fetch
\* of a direct candidate, of a listing page or of a page reached through a listing
\* page leaves the items as they are and raises no error; after a direct or listing
\* failure the loop is at the next candidate, after a failed attempt on a listing
\* anchor the fetch is retried or, after the last attempt, the scan is at the next
\* anchor; and the loop over the candidates (the scan of a listing page) ends only
\* when no candidate (anchor) is left or the items have reached max_pages.
C21_CandidateFailureIsLocal ==
    [][LET n == Len(fetch_log')
           Failure == /\ n = Len(fetch_log) + 1
                      /\ fetch_log'[n].kind \in {"direct", "listing", "article"}
                      /\ ~fetch_log'[n].ok
       IN  /\ Failure =>
                 /\ items' = items
                 /\ error' = "" /\ pc' \notin {"error", "panic"}
                 /\ rss_items' = rss_items /\ candidates' = candidates
                 /\ fetch_log'[n].kind \in {"direct", "listing"} =>
                       pc' = "candidates" /\ ci' = ci + 1
                 /\ fetch_log'[n].kind = "article" =>
                       /\ ci' = ci
                       /\ IF fetch_log'[n].attempt < 2
                          THEN pc' = "retry" /\ ai' = ai /\ attempt' = attempt + 1
                          ELSE pc' = "listing" /\ ai' = ai + 1
           /\ (pc = "candidates" /\ pc' \notin {"candidates", "listing"}) =>
                 /\ pc' = "filter"
                 /\ ci > Len(candidates) \/ Len(items) >= max_pages
           /\ (pc = "listing" /\ pc' \notin {"listing", "retry"}) =>
                 /\ pc' = "candidates" /\ ci' = ci + 1
                 /\ ai > Len(SelectA(Pages[doc_list])) \/ Len(items) >= max_pages
           /\ (pc = "retry" /\ pc' # "retry") => pc' = "listing" /\ ai' = ai + 1
      ]_vars

\* an item was extracted, the next page of the listing page then failed at all
\* three attempts, the remaining candidate was still fetched, and the run ended
\* by writing the item collected before the failures
C21_Witness ==
    /\ pc = "done" /\ error = ""
    /\ max_pages = 2
    /\ rss_items.some /\ Len(rss_items.v) = 1
    /\ \E i \in 1..Len(fetch_log) :
          /\ i + 4 <= Len(fetch_log)
          /\ fetch_log[i].kind = "article" /\ fetch_log[i].ok
          /\ \A j \in 1..3 : fetch_log[i + j].kind = "article" /\ ~fetch_log[i + j].ok
          /\ fetch_log[i + 4].kind = "direct" /\ ~fetch_log[i + 4].ok

====
